---- MODULE Spec2Model ----
(***************************************************************************)
(* Model of the BilinearPodAutoscaler (package bipa) of gardener: the      *)
(* coordinator that keeps one HPA and one VPA for the kube-apiserver       *)
(* deployment of a shoot control plane, plus the shoot access secret and   *)
(* the 'gardener-custom-metrics' ManagedResource that go with them, and of *)
(* the seed components gardener-custom-metrics and pvc-autoscaler: their    *)
(* Deploy, Destroy, Wait and WaitCleanup, and the check whether the default *)
(* storage class allows volume expansion.                                  *)
(*                                                                         *)
(* Optional (pointer) values are sequences of length at most one: <<>> is  *)
(* nil / "not on the server", <<v>> is a present value.                    *)
(***************************************************************************)
EXTENDS Integers, Sequences, FiniteSets, TLC

VARIABLES
    hpa,            \* HPAs of the control-plane namespace, by object name
    vpa,            \* VPAs of the control-plane namespace, by object name
    accessSecret,   \* the shoot access secret 'shoot-access-gardener-custom-metrics'
    mrSecret,       \* the secret holding the ManagedResource's serialized objects
    mr,             \* the ManagedResource 'gardener-custom-metrics' of the shoot namespace
    seedMrSecret,   \* seed component: data secret of its ManagedResource
    seedMr,         \* seed component: ManagedResource 'gardener-custom-metrics' in 'garden'
    last,           \* the call that produced the current state, and what it returned
    seedMrStatus,   \* seed component: generation and status of its ManagedResource
    caSeed,         \* the 'ca-seed' CA secret held by the secrets manager
    serverCertificateSecret, \* seed component: secret 'gardener-custom-metrics-tls'
    pva,            \* pvc-autoscaler: its TLS secret, data secret, ManagedResource, status
    waiter,         \* the wait in progress (Wait / WaitCleanup), and its attempts so far
    storageClasses, \* the StorageClass objects of the cluster, in list order
    ldr,            \* the KapiLoader: requestsPerSecond and the holder of its lock
    setLoad,        \* per calling goroutine: its call of SetLoad and where it stands
    loaderProcs     \* the loaderProc goroutines: where each stands, and its rps

\* The state of the seed components beyond the ManagedResource of gardener-custom-metrics.
seedVars == <<seedMrStatus, caSeed, serverCertificateSecret, pva, waiter>>

\* The state of the load generator of the e2e tests.
loaderVars == <<ldr, setLoad, loaderProcs>>

vars == <<hpa, vpa, accessSecret, mrSecret, mr, seedMrSecret, seedMr, last,
          seedMrStatus, caSeed, serverCertificateSecret, pva, waiter, storageClasses,
          ldr, setLoad, loaderProcs>>

---------------------------------------------------------------------------
(* Bounds and inputs *)

\* Largest replica count passed as MinReplicaCount / MaxReplicaCount.
MaxReplicas == 2

\* int32 replica bounds handed to Reconcile; 0 is the non-positive case.
ReplicaCounts == 0..MaxReplicas

\* Number of goroutines that call SetLoad.
MaxCallers == 2

\* Largest number of loaderProc goroutines in existence at one time.
MaxLoaderProcs == 3

\* Largest number of StorageClass objects in the cluster.
MaxStorageClasses == 2

\* Number of polls of a ManagedResource that fit into managedResourceTimeout.
MaxAttempts == 2

\* The API call at which a pass stops, because the call fails or because the
\* process is killed there; "none" is a pass in which every call succeeds.
Faults == {"none", "hpa", "vpa", "accessSecret", "mrSecret", "mr"}

---------------------------------------------------------------------------
(* The handle: BilinearPodAutoscaler{deploymentNameApiserver, namespace} *)

deploymentNameApiserver == "kube-apiserver"

namespace == "shoot--foo--bar"

ComponentName == "gardener-custom-metrics"

GetHPAName == deploymentNameApiserver \o "-bipa"

GetVPAName == deploymentNameApiserver \o "-bipa"

\* Object names of the namespace under which an autoscaler object can live.
ObjectNames == {GetHPAName, GetVPAName, deploymentNameApiserver}

\* The parameters handed to Reconcile: every pair of replica bounds when
\* enabled; the replica bounds play no part when disabled.
DesiredStateParameters ==
    [ContainerNameApiserver : {"kube-apiserver"},
     IsEnabled : {TRUE},
     MaxReplicaCount : ReplicaCounts,
     MinReplicaCount : ReplicaCounts]
    \cup
    [ContainerNameApiserver : {"kube-apiserver"},
     IsEnabled : {FALSE},
     MaxReplicaCount : {MaxReplicas},
     MinReplicaCount : {1}]

---------------------------------------------------------------------------
(* Empty objects, as the Go zero values of their specs *)

makeEmptyHPA ==
    [name |-> GetHPAName,
     namespace |-> namespace,
     labels |-> {},
     annotations |-> {},
     scaleTargetRef |-> [apiVersion |-> "", kind |-> "", name |-> ""],
     behavior |-> <<>>,
     metrics |-> <<>>,
     minReplicas |-> <<>>,
     maxReplicas |-> 0]

makeEmptyVPA ==
    [name |-> GetVPAName,
     namespace |-> namespace,
     labels |-> {},
     annotations |-> {},
     recommenders |-> <<>>,
     targetRef |-> <<>>,
     updatePolicy |-> <<>>,
     resourcePolicy |-> <<>>]

---------------------------------------------------------------------------
(* The persistence layer: typed get / create / merge-patch / delete of one *)
(* object keyed by (namespace, name).  cur is the object on the server     *)
(* (<<>> when absent); failing says that the layer's call fails.           *)

\* client.Delete: removes the object; NotFound when there is none.
clientDelete(cur, failing) ==
    IF failing THEN [obj |-> cur, err |-> "api", sent |-> 1]
    ELSE IF cur = <<>> THEN [obj |-> <<>>, err |-> "NotFound", sent |-> 1]
    ELSE [obj |-> <<>>, err |-> "nil", sent |-> 1]

\* client.IgnoreNotFound
IgnoreNotFound(r) ==
    IF r.err = "NotFound" THEN [r EXCEPT !.err = "nil"] ELSE r

\* kubernetesutils.DeleteObject / DeleteObjects: delete, a missing object is no error.
DeleteObject(cur, failing) == IgnoreNotFound(clientDelete(cur, failing))

\* The object a Get leaves in obj: the one on the server, or obj as it was
\* (the empty object the caller made) when there is none.
ObjectRead(cur, empty) == IF cur = <<>> THEN empty ELSE cur[1]

\* controllerutils.GetAndCreateOrMergePatch: Get the object; when it is not
\* found, Create the mutated empty object; otherwise send the difference
\* between the object read and the mutated one as a merge patch (nothing is
\* sent when the mutation changed nothing).  mutated is the result of the
\* caller's mutate function on ObjectRead.
GetAndCreateOrMergePatch(cur, mutated, failing) ==
    IF failing THEN [obj |-> cur, err |-> "api", sent |-> 0]
    ELSE IF cur = <<>> THEN [obj |-> <<mutated>>, err |-> "nil", sent |-> 1]
    ELSE IF mutated = cur[1] THEN [obj |-> cur, err |-> "nil", sent |-> 0]
    ELSE [obj |-> <<mutated>>, err |-> "nil", sent |-> 1]

\* managedresources.SecretName(name, true)
ManagedResourceSecretName(name) == "managedresource-" \o name

\* The ManagedResource object written by managedresources.CreateForShoot / CreateForSeed.
ManagedResourceObject(ns, name, class) ==
    [name |-> name, namespace |-> ns, class |-> class,
     secretRefs |-> <<ManagedResourceSecretName(name)>>, keepObjects |-> FALSE]

\* managedresources.CreateForShoot: writes the data secret, then the
\* ManagedResource that references it.  s is [mrSecret, mr].
CreateForShoot(s, ns, name, data, fault) ==
    LET secretObj == [name |-> ManagedResourceSecretName(name), namespace |-> ns, data |-> data]
        mrObj == ManagedResourceObject(ns, name, "shoot")
        sec == GetAndCreateOrMergePatch(s.mrSecret, secretObj, fault = "mrSecret")
    IN  IF sec.err # "nil"
        THEN [mrSecret |-> s.mrSecret, mr |-> s.mr, err |-> "mrSecret", sent |-> sec.sent]
        ELSE LET m == GetAndCreateOrMergePatch(s.mr, mrObj, fault = "mr")
             IN  [mrSecret |-> sec.obj, mr |-> m.obj,
                  err |-> IF m.err # "nil" THEN "mr" ELSE "nil",
                  sent |-> sec.sent + m.sent]

\* managedresources.DeleteForShoot / DeleteForSeed: deletes the
\* ManagedResource, then its data secret; missing objects are no error.
DeleteManagedResource(s, fault) ==
    LET m == DeleteObject(s.mr, fault = "mr")
    IN  IF m.err # "nil"
        THEN [mrSecret |-> s.mrSecret, mr |-> s.mr, err |-> "mr", sent |-> m.sent]
        ELSE LET sec == DeleteObject(s.mrSecret, fault = "mrSecret")
             IN  [mrSecret |-> sec.obj, mr |-> m.obj,
                  err |-> IF sec.err # "nil" THEN "mrSecret" ELSE "nil",
                  sent |-> m.sent + sec.sent]

\* gardenerutils.NewShootAccessSecret(name, namespace).WithSecretLabels(labels)
NewShootAccessSecret(name, ns, secretLabels) ==
    [name |-> "shoot-access-" \o name, namespace |-> ns,
     labels |-> secretLabels, serviceAccountName |-> name, configured |-> FALSE]

\* AccessSecret.Reconcile: creates or patches the secret so that the token
\* requestor issues a token for the service account in kube-system.
AccessSecretReconcile(cur, secret, failing) ==
    GetAndCreateOrMergePatch(cur,
        [ObjectRead(cur, secret) EXCEPT
            !.labels = secret.labels
                          \cup {<<"resources.gardener.cloud/purpose", "token-requestor">>,
                                <<"resources.gardener.cloud/class", "shoot">>},
            !.serviceAccountName = secret.serviceAccountName,
            !.configured = TRUE],
        failing)

---------------------------------------------------------------------------
(* BilinearPodAutoscaler: private implementation *)

\* A result of an operation on the server state s: the state it leaves, the
\* error it returns ("nil" for none) and the number of create, patch and
\* delete requests it sent.
Return(s, err, sent) == [srv |-> s, err |-> err, sent |-> sent]

\* The mutate function passed by reconcileHPA.
mutateHPA(o, minReplicaCount, maxReplicaCount) ==
    [o EXCEPT
        !.scaleTargetRef = [apiVersion |-> "apps/v1", kind |-> "Deployment",
                            name |-> deploymentNameApiserver],
        !.behavior = <<[scaleDown |-> <<[stabilizationWindowSeconds |-> <<900>>]>>,
                        scaleUp |-> <<>>]>>,
        !.metrics = <<[type |-> "Pods",
                       name |-> "shoot:apiserver_request_total:sum",
                       targetType |-> "AverageValue",
                       averageValue |-> 300]>>,
        !.minReplicas = <<minReplicaCount>>,
        !.maxReplicas = maxReplicaCount,
        !.labels = {<<"role", "apiserver-hpa">>}]

\* Faulty variant: the metric is appended to the metrics read from the server.
reconcileHPA_appendsMetric(s, fault, minReplicaCount, maxReplicaCount) ==
    LET o == ObjectRead(s.hpa[GetHPAName], makeEmptyHPA)
        r == GetAndCreateOrMergePatch(s.hpa[GetHPAName],
                 [mutateHPA(o, minReplicaCount, maxReplicaCount)
                     EXCEPT !.metrics = o.metrics \o @],
                 fault = "hpa")
    IN  IF r.err # "nil" THEN Return(s, "reconcileHPA", r.sent)
        ELSE Return([s EXCEPT !.hpa[GetHPAName] = r.obj], "nil", r.sent)

\* Faulty variant: the replica bounds are written the wrong way round.
reconcileHPA_swapsBounds(s, fault, minReplicaCount, maxReplicaCount) ==
    LET o == ObjectRead(s.hpa[GetHPAName], makeEmptyHPA)
        r == GetAndCreateOrMergePatch(s.hpa[GetHPAName],
                 mutateHPA(o, maxReplicaCount, minReplicaCount),
                 fault = "hpa")
    IN  IF r.err # "nil" THEN Return(s, "reconcileHPA", r.sent)
        ELSE Return([s EXCEPT !.hpa[GetHPAName] = r.obj], "nil", r.sent)

\* Faulty variant: the object is written under its name whatever its kind, so
\* the write of the HPA displaces the VPA of the same name.
reconcileHPA_writesByName(s, fault, minReplicaCount, maxReplicaCount) ==
    LET o == ObjectRead(s.hpa[GetHPAName], makeEmptyHPA)
        r == GetAndCreateOrMergePatch(s.hpa[GetHPAName],
                 mutateHPA(o, minReplicaCount, maxReplicaCount),
                 fault = "hpa")
    IN  IF r.err # "nil" THEN Return(s, "reconcileHPA", r.sent)
        ELSE Return([s EXCEPT !.hpa[GetHPAName] = r.obj, !.vpa[GetHPAName] = <<>>],
                    "nil", r.sent)

\* Reconciles the HPA resource which is part of the BilinearPodAutoscaler.
reconcileHPA(s, fault, minReplicaCount, maxReplicaCount) ==
    LET o == ObjectRead(s.hpa[GetHPAName], makeEmptyHPA)
        r == GetAndCreateOrMergePatch(s.hpa[GetHPAName],
                 mutateHPA(o, minReplicaCount, maxReplicaCount),
                 fault = "hpa")
    IN  IF r.err # "nil" THEN Return(s, "reconcileHPA", r.sent)
        ELSE Return([s EXCEPT !.hpa[GetHPAName] = r.obj], "nil", r.sent)

\* Creates a list of VPA ContainerResourcePolicy objects, initialised with
\* default settings.  CPU is in cores, memory in megabytes (400M, 25G).
makeDefaultVPAResourcePolicies(containerNameApiserver) ==
    <<[containerName |-> containerNameApiserver,
       mode |-> <<"Auto">>,
       minAllowed |-> {<<"memory", 400>>},
       maxAllowed |-> {<<"cpu", 8>>, <<"memory", 25000>>},
       controlledValues |-> <<"RequestsOnly">>]>>

\* The mutate function passed by reconcileVPA.
mutateVPA(o, containerNameApiserver, minReplicaCount) ==
    [o EXCEPT
        !.recommenders = <<>>,
        !.targetRef = <<[apiVersion |-> "apps/v1", kind |-> "Deployment",
                         name |-> deploymentNameApiserver]>>,
        !.updatePolicy = <<[minReplicas |-> <<minReplicaCount>>, updateMode |-> <<"Auto">>]>>,
        !.resourcePolicy =
            <<[containerPolicies |-> makeDefaultVPAResourcePolicies(containerNameApiserver)]>>,
        !.labels = {<<"role", "apiserver-vpa">>}]

\* Faulty variant: the VPA's minReplicas is the fixed value 2, whatever the HPA's floor.
reconcileVPA_fixedMinReplicas(s, fault, containerNameApiserver, minReplicaCount) ==
    LET o == ObjectRead(s.vpa[GetVPAName], makeEmptyVPA)
        r == GetAndCreateOrMergePatch(s.vpa[GetVPAName],
                 mutateVPA(o, containerNameApiserver, 2),
                 fault = "vpa")
    IN  IF r.err # "nil" THEN Return(s, "reconcileVPA", r.sent)
        ELSE Return([s EXCEPT !.vpa[GetVPAName] = r.obj], "nil", r.sent)

\* Faulty variant: the VPA is created without looking for an existing one, so the
\* call fails with AlreadyExists when a VPA is on the server.
reconcileVPA_createOnly(s, fault, containerNameApiserver, minReplicaCount) ==
    IF fault = "vpa" \/ s.vpa[GetVPAName] # <<>>
    THEN Return(s, "reconcileVPA", 1)
    ELSE Return([s EXCEPT !.vpa[GetVPAName] =
                    <<mutateVPA(makeEmptyVPA, containerNameApiserver, minReplicaCount)>>],
                "nil", 1)

\* Faulty variant: an incremental update, which sets the update policy and the
\* resource policy only where the VPA has none.
reconcileVPA_keepsPolicies(s, fault, containerNameApiserver, minReplicaCount) ==
    LET o == ObjectRead(s.vpa[GetVPAName], makeEmptyVPA)
        m == mutateVPA(o, containerNameApiserver, minReplicaCount)
        r == GetAndCreateOrMergePatch(s.vpa[GetVPAName],
                 [m EXCEPT !.updatePolicy = IF o.updatePolicy = <<>> THEN @ ELSE o.updatePolicy,
                           !.resourcePolicy =
                               IF o.resourcePolicy = <<>> THEN @ ELSE o.resourcePolicy],
                 fault = "vpa")
    IN  IF r.err # "nil" THEN Return(s, "reconcileVPA", r.sent)
        ELSE Return([s EXCEPT !.vpa[GetVPAName] = r.obj], "nil", r.sent)

\* Reconciles the VPA resource which is part of the BilinearPodAutoscaler.
reconcileVPA(s, fault, containerNameApiserver, minReplicaCount) ==
    LET o == ObjectRead(s.vpa[GetVPAName], makeEmptyVPA)
        r == GetAndCreateOrMergePatch(s.vpa[GetVPAName],
                 mutateVPA(o, containerNameApiserver, minReplicaCount),
                 fault = "vpa")
    IN  IF r.err # "nil" THEN Return(s, "reconcileVPA", r.sent)
        ELSE Return([s EXCEPT !.vpa[GetVPAName] = r.obj], "nil", r.sent)

\* Creates an empty shoot access secret; its name is a fixed function of the handle.
makeShootAccessSecret ==
    NewShootAccessSecret(ComponentName, namespace,
                         {<<"name", "shoot-access-gardener-custom-metrics">>})

\* Reconciles those bipa resources which belong inside the shoot cluster:
\* a ClusterRole and a ClusterRoleBinding, delivered by a ManagedResource
\* named after gardener-custom-metrics.
reconcileAppResources(s, fault, serviceAccountName) ==
    LET clusterRole == [name |-> "gardener.cloud:monitoring:gardener-custom-metrics-target",
                        nonResourceURLs |-> {"/metrics"}, verbs |-> {"get"}]
        clusterRoleBinding ==
            [name |-> "gardener.cloud:monitoring:gardener-custom-metrics-target",
             roleRef |-> clusterRole.name,
             subject |-> [kind |-> "ServiceAccount", name |-> serviceAccountName,
                          namespace |-> "kube-system"]]
        data == [clusterrole |-> clusterRole, clusterrolebinding |-> clusterRoleBinding]
        r == CreateForShoot([mrSecret |-> s.mrSecret, mr |-> s.mr],
                            namespace, ComponentName, data, fault)
    IN  Return([s EXCEPT !.mrSecret = r.mrSecret, !.mr = r.mr],
               IF r.err # "nil" THEN "reconcileAppResources" ELSE "nil", r.sent)

---------------------------------------------------------------------------
(* BilinearPodAutoscaler: DeleteFromServer and Reconcile *)

\* Faulty variant: the teardown of an earlier revision, which leaves the shoot access secret.
DeleteFromServer_keepsAccessSecret(s, fault) ==
    LET m == DeleteManagedResource([mrSecret |-> s.mrSecret, mr |-> s.mr], fault)
        s1 == [s EXCEPT !.mrSecret = m.mrSecret, !.mr = m.mr]
    IN  IF m.err # "nil" THEN Return(s1, "delete ManagedResource", m.sent)
        ELSE LET h == IgnoreNotFound(DeleteObject(s1.hpa[GetHPAName], fault = "hpa"))
                 s2 == [s1 EXCEPT !.hpa[GetHPAName] = h.obj]
             IN  IF h.err # "nil" THEN Return(s1, "delete HPA", m.sent + h.sent)
                 ELSE LET v == IgnoreNotFound(DeleteObject(s2.vpa[GetVPAName], fault = "vpa"))
                          s3 == [s2 EXCEPT !.vpa[GetVPAName] = v.obj]
                      IN  IF v.err # "nil" THEN Return(s2, "delete VPA", m.sent + h.sent + v.sent)
                          ELSE Return(s3, "nil", m.sent + h.sent + v.sent)

\* Faulty variant: the HPA is deleted with the bare client, so a missing HPA is an error.
DeleteFromServer_strictDelete(s, fault) ==
    LET m == DeleteManagedResource([mrSecret |-> s.mrSecret, mr |-> s.mr], fault)
        s1 == [s EXCEPT !.mrSecret = m.mrSecret, !.mr = m.mr]
    IN  IF m.err # "nil" THEN Return(s1, "delete ManagedResource", m.sent)
        ELSE LET h == clientDelete(s1.hpa[GetHPAName], fault = "hpa")
                 s2 == [s1 EXCEPT !.hpa[GetHPAName] = h.obj]
             IN  IF h.err # "nil" THEN Return(s1, "delete HPA", m.sent + h.sent)
                 ELSE LET v == IgnoreNotFound(DeleteObject(s2.vpa[GetVPAName], fault = "vpa"))
                          s3 == [s2 EXCEPT !.vpa[GetVPAName] = v.obj]
                      IN  IF v.err # "nil" THEN Return(s2, "delete VPA", m.sent + h.sent + v.sent)
                          ELSE LET a == DeleteObject(s3.accessSecret, fault = "accessSecret")
                                   s4 == [s3 EXCEPT !.accessSecret = a.obj]
                               IN  IF a.err # "nil"
                                   THEN Return(s3, "delete access secret",
                                               m.sent + h.sent + v.sent + a.sent)
                                   ELSE Return(s4, "nil", m.sent + h.sent + v.sent + a.sent)

\* Faulty variant: the VPA is not deleted.
DeleteFromServer_keepsVPA(s, fault) ==
    LET m == DeleteManagedResource([mrSecret |-> s.mrSecret, mr |-> s.mr], fault)
        s1 == [s EXCEPT !.mrSecret = m.mrSecret, !.mr = m.mr]
    IN  IF m.err # "nil" THEN Return(s1, "delete ManagedResource", m.sent)
        ELSE LET h == IgnoreNotFound(DeleteObject(s1.hpa[GetHPAName], fault = "hpa"))
                 s2 == [s1 EXCEPT !.hpa[GetHPAName] = h.obj]
             IN  IF h.err # "nil" THEN Return(s1, "delete HPA", m.sent + h.sent)
                 ELSE LET a == DeleteObject(s2.accessSecret, fault = "accessSecret")
                          s4 == [s2 EXCEPT !.accessSecret = a.obj]
                      IN  IF a.err # "nil"
                          THEN Return(s2, "delete access secret", m.sent + h.sent + a.sent)
                          ELSE Return(s4, "nil", m.sent + h.sent + a.sent)

\* DeleteFromServer removes all BilinearPodAutoscaler artefacts from the
\* shoot control plane: the ManagedResource, the HPA, the VPA and the shoot
\* access secret, in this order, returning at the first error.
DeleteFromServer(s, fault) ==
    LET m == DeleteManagedResource([mrSecret |-> s.mrSecret, mr |-> s.mr], fault)
        s1 == [s EXCEPT !.mrSecret = m.mrSecret, !.mr = m.mr]
    IN  IF m.err # "nil" THEN Return(s1, "delete ManagedResource", m.sent)
        ELSE LET h == IgnoreNotFound(DeleteObject(s1.hpa[GetHPAName], fault = "hpa"))
                 s2 == [s1 EXCEPT !.hpa[GetHPAName] = h.obj]
             IN  IF h.err # "nil" THEN Return(s1, "delete HPA", m.sent + h.sent)
                 ELSE LET v == IgnoreNotFound(DeleteObject(s2.vpa[GetVPAName], fault = "vpa"))
                          s3 == [s2 EXCEPT !.vpa[GetVPAName] = v.obj]
                      IN  IF v.err # "nil" THEN Return(s2, "delete VPA", m.sent + h.sent + v.sent)
                          ELSE LET a == DeleteObject(s3.accessSecret, fault = "accessSecret")
                                   s4 == [s3 EXCEPT !.accessSecret = a.obj]
                               IN  IF a.err # "nil"
                                   THEN Return(s3, "delete access secret",
                                               m.sent + h.sent + v.sent + a.sent)
                                   ELSE Return(s4, "nil", m.sent + h.sent + v.sent + a.sent)

\* Faulty variant: an error of reconcileVPA is dropped and the pass goes on.
Reconcile_dropsVPAError(s, fault, parameters) ==
    IF ~parameters.IsEnabled
    THEN LET d == DeleteFromServer(s, fault)
         IN  IF d.err # "nil" THEN Return(d.srv, "disable: " \o d.err, d.sent) ELSE d
    ELSE
    LET h == reconcileHPA(s, fault, parameters.MinReplicaCount, parameters.MaxReplicaCount)
    IN  IF h.err # "nil" THEN Return(h.srv, "reconcile HPA", h.sent)
        ELSE
    LET v == reconcileVPA(h.srv, fault, parameters.ContainerNameApiserver,
                          parameters.MinReplicaCount)
        shootAccessSecret == makeShootAccessSecret
        a == AccessSecretReconcile(v.srv.accessSecret, shootAccessSecret,
                                   fault = "accessSecret")
    IN  IF a.err # "nil"
        THEN Return(v.srv, "create shoot access secret", h.sent + v.sent + a.sent)
        ELSE
    LET r == reconcileAppResources([v.srv EXCEPT !.accessSecret = a.obj], fault,
                                   shootAccessSecret.serviceAccountName)
    IN  Return(r.srv, r.err, h.sent + v.sent + a.sent + r.sent)

\* Reconcile brings the server-side BilinearPodAutoscaler setup in compliance
\* with the desired state: disabled, it deletes everything; enabled, it
\* reconciles the HPA, the VPA, the shoot access secret and the shoot
\* resources, in this order, returning at the first error.
Reconcile(s, fault, parameters) ==
    IF ~parameters.IsEnabled
    THEN LET d == DeleteFromServer(s, fault)
         IN  IF d.err # "nil" THEN Return(d.srv, "disable: " \o d.err, d.sent) ELSE d
    ELSE
    LET h == reconcileHPA(s, fault, parameters.MinReplicaCount, parameters.MaxReplicaCount)
    IN  IF h.err # "nil" THEN Return(h.srv, "reconcile HPA", h.sent)
        ELSE
    LET v == reconcileVPA(h.srv, fault, parameters.ContainerNameApiserver,
                          parameters.MinReplicaCount)
    IN  IF v.err # "nil" THEN Return(v.srv, "reconcile VPA", h.sent + v.sent)
        ELSE
    LET shootAccessSecret == makeShootAccessSecret
        a == AccessSecretReconcile(v.srv.accessSecret, shootAccessSecret,
                                   fault = "accessSecret")
    IN  IF a.err # "nil"
        THEN Return(v.srv, "create shoot access secret", h.sent + v.sent + a.sent)
        ELSE
    LET r == reconcileAppResources([v.srv EXCEPT !.accessSecret = a.obj], fault,
                                   shootAccessSecret.serviceAccountName)
    IN  Return(r.srv, r.err, h.sent + v.sent + a.sent + r.sent)

\* What the message of an error of Reconcile or DeleteFromServer carries,
\* by the place that made the error: the sub-resource and the operation its
\* text speaks of, and the names formatted into it.  Reconcile wraps the
\* error of DeleteFromServer in its own base message.
RECURSIVE ErrorMessage(_)
ErrorMessage(err) ==
    LET base == {deploymentNameApiserver, namespace}
    IN  CASE err = "delete ManagedResource" ->
                [subResource |-> "ManagedResource", operation |-> "delete",
                 names |-> base \cup {ComponentName}]
          [] err = "delete HPA" ->
                [subResource |-> "HPA", operation |-> "delete", names |-> base]
          [] err = "delete VPA" ->
                [subResource |-> "VPA", operation |-> "delete", names |-> base]
          [] err = "delete access secret" ->
                [subResource |-> "access secret", operation |-> "delete",
                 names |-> base \cup {makeShootAccessSecret.name}]
          [] err = "reconcile HPA" ->
                [subResource |-> "HPA", operation |-> "reconcile",
                 names |-> base \cup {GetHPAName}]
          [] err = "reconcile VPA" ->
                [subResource |-> "VPA", operation |-> "reconcile",
                 names |-> base \cup {GetVPAName}]
          [] err = "create shoot access secret" ->
                [subResource |-> "access secret", operation |-> "create",
                 names |-> base \cup {makeShootAccessSecret.name}]
          [] err = "reconcileAppResources" ->
                [subResource |-> "ManagedResource", operation |-> "create",
                 names |-> {namespace}]
          [] err = "disable: delete ManagedResource" ->
                [ErrorMessage("delete ManagedResource") EXCEPT !.names = @ \cup base]
          [] err = "disable: delete HPA" ->
                [ErrorMessage("delete HPA") EXCEPT !.names = @ \cup base]
          [] err = "disable: delete VPA" ->
                [ErrorMessage("delete VPA") EXCEPT !.names = @ \cup base]
          [] err = "disable: delete access secret" ->
                [ErrorMessage("delete access secret") EXCEPT !.names = @ \cup base]

---------------------------------------------------------------------------
(* GardenerCustomMetrics (seed component): Destroy *)

\* Destroy removes the component's ManagedResource from the seed.
Destroy(s, fault) ==
    LET r == DeleteManagedResource(s, fault)
    IN  [mrSecret |-> r.mrSecret, mr |-> r.mr,
         err |-> IF r.err # "nil" THEN "remove ManagedResource" ELSE "nil",
         sent |-> r.sent]

---------------------------------------------------------------------------
(* Seed side of the persistence layer: ManagedResources of class seed,     *)
(* their status, the secrets manager and the retry loop of the waits.      *)

\* managedresources.CreateForSeed: writes the data secret, then the
\* ManagedResource that references it.  s is [mrSecret, mr].
CreateForSeed(s, ns, name, data, fault) ==
    LET secretObj == [name |-> ManagedResourceSecretName(name), namespace |-> ns, data |-> data]
        mrObj == ManagedResourceObject(ns, name, "seed")
        sec == GetAndCreateOrMergePatch(s.mrSecret, secretObj, fault = "mrSecret")
    IN  IF sec.err # "nil"
        THEN [mrSecret |-> s.mrSecret, mr |-> s.mr, err |-> "mrSecret", sent |-> sec.sent]
        ELSE LET m == GetAndCreateOrMergePatch(s.mr, mrObj, fault = "mr")
             IN  [mrSecret |-> sec.obj, mr |-> m.obj,
                  err |-> IF m.err # "nil" THEN "mr" ELSE "nil",
                  sent |-> sec.sent + m.sent]

\* metadata.generation and status of a ManagedResource no controller has seen yet.
NewManagedResourceStatus == [generation |-> 1, observedGeneration |-> 0, conditions |-> {}]

\* What the API server keeps of generation and status when a write turns the
\* ManagedResource before into after: none without an object, a new one for
\* a created object, the next generation when the object's spec changed.
ManagedResourceStatusAfter(before, after, status) ==
    IF after = <<>> THEN <<>>
    ELSE IF before = <<>> THEN <<NewManagedResourceStatus>>
    ELSE IF after # before THEN <<[status[1] EXCEPT !.generation = @ + 1]>>
    ELSE status

\* health.CheckManagedResource: the status is of the current generation and
\* the conditions ResourcesApplied and ResourcesHealthy are both True.
CheckManagedResource(status) ==
    /\ status.observedGeneration = status.generation
    /\ <<"ResourcesApplied", "True">> \in status.conditions
    /\ <<"ResourcesHealthy", "True">> \in status.conditions

\* One attempt of managedresources.WaitUntilHealthy: a failed Get (not found
\* included) ends the wait, an unhealthy ManagedResource is tried again.
WaitUntilHealthy(mrObj, status, failing) ==
    IF failing THEN [kind |-> "SevereError", err |-> "api"]
    ELSE IF mrObj = <<>> THEN [kind |-> "SevereError", err |-> "not found"]
    ELSE IF ~CheckManagedResource(status[1]) THEN [kind |-> "MinorError", err |-> "is not healthy"]
    ELSE [kind |-> "Ok", err |-> "nil"]

\* One attempt of managedresources.WaitUntilDeleted: not found is the goal,
\* an object that is still there is tried again.
WaitUntilDeleted(mrObj, failing) ==
    IF failing THEN [kind |-> "SevereError", err |-> "api"]
    ELSE IF mrObj = <<>> THEN [kind |-> "Ok", err |-> "nil"]
    ELSE [kind |-> "MinorError", err |-> "still exists"]

\* retry.Until under a context with timeout: what the loop does with the
\* outcome of its attempt number attempts + 1.  It returns on Ok and on a
\* severe error; on a minor error it sleeps and tries again, unless the
\* deadline has passed, and then it returns the last minor error.
UntilTimeout(outcome, attempts) ==
    IF outcome.kind = "Ok"
    THEN [done |-> TRUE, err |-> "nil", deadline |-> FALSE, attempts |-> attempts + 1]
    ELSE IF outcome.kind = "SevereError"
    THEN [done |-> TRUE, err |-> outcome.err, deadline |-> FALSE, attempts |-> attempts + 1]
    ELSE IF attempts + 1 >= MaxAttempts
    THEN [done |-> TRUE, err |-> outcome.err, deadline |-> TRUE, attempts |-> attempts + 1]
    ELSE [done |-> FALSE, err |-> "nil", deadline |-> FALSE, attempts |-> attempts + 1]

SecretNameCASeed == "ca-seed"

\* The CA secret as the secrets manager holds it, with or without a certificate bundle.
CASecret(bundle) == [name |-> SecretNameCASeed, bundle |-> bundle]

\* secretsManager.Get(name): the secret, and whether there is one.
SecretsManagerGet(ca) == [found |-> ca # <<>>, secret |-> ca]

\* secretsManager.Generate(config, SignedByCA(ca-seed), Rotate(InPlace)):
\* fails without the signing CA; otherwise it creates the certificate secret
\* for the config, or keeps the one it made for the same config before.
Generate(cur, name, ns, commonName, ca, failing) ==
    IF failing \/ ca = <<>> THEN [obj |-> cur, err |-> "generate", sent |-> 0]
    ELSE LET secret == [name |-> name, namespace |-> ns, commonName |-> commonName,
                        certType |-> "server", signedBy |-> ca[1].name]
         IN  IF cur = <<secret>> THEN [obj |-> cur, err |-> "nil", sent |-> 0]
             ELSE [obj |-> <<secret>>, err |-> "nil", sent |-> 1]

---------------------------------------------------------------------------
(* GardenerCustomMetrics (seed component): Deploy, Wait, WaitCleanup *)

\* The namespace the component is constructed for.
namespaceName == "garden"

managedResourceName == ComponentName

serviceName == ComponentName

serverCertificateSecretName == ComponentName \o "-tls"

imageName == "gardener-custom-metrics:v1"

\* The result of a seed component's operation on its objects s: the objects
\* it leaves, the error it returns ("nil" for none), the names its error
\* message carries, and the number of requests it sent.
SeedReturn(s, err, errArgs, sent) == [srv |-> s, err |-> err, errArgs |-> errArgs, sent |-> sent]

\* Deploys the server TLS certificate to a secret and returns that secret.
\* s is [caSeed, serverCertificateSecret, mrSecret, mr].
deployServerCertificate(s, fault) ==
    IF ~SecretsManagerGet(s.caSeed).found
    THEN SeedReturn(s, "CA certificate missing", {SecretNameCASeed}, 0)
    ELSE LET g == Generate(s.serverCertificateSecret, serverCertificateSecretName,
                           namespaceName, serviceName \o "." \o namespaceName \o ".svc",
                           s.caSeed, fault = "tls")
         IN  IF g.err # "nil"
             THEN SeedReturn(s, "generate certificate", {serverCertificateSecretName}, g.sent)
             ELSE SeedReturn([s EXCEPT !.serverCertificateSecret = g.obj], "nil", {}, g.sent)

\* kubeobjects.GetKubeObjectsAsYamlBytes: the objects of the deployment
\* arrangement, as far as the arguments determine them.
GetKubeObjectsAsYamlBytes(name, ns, image, serverSecretName) ==
    [deployment |-> [name |-> name, namespace |-> ns, image |-> image,
                     serverSecretName |-> serverSecretName]]

\* Faulty variant: the server certificate is generated without looking for the CA
\* first, and a failure to generate it does not stop the deployment.
Deploy_ignoresCertificateError(s, isEnabled, fault) ==
    IF ~isEnabled
    THEN LET d == Destroy([mrSecret |-> s.mrSecret, mr |-> s.mr], fault)
         IN  SeedReturn([s EXCEPT !.mrSecret = d.mrSecret, !.mr = d.mr],
                        IF d.err # "nil" THEN "disable: " \o d.err ELSE "nil",
                        IF d.err # "nil" THEN {namespaceName, managedResourceName} ELSE {},
                        d.sent)
    ELSE
    LET kubeObjects == GetKubeObjectsAsYamlBytes(ComponentName, namespaceName, imageName,
                                                 serverCertificateSecretName)
        r == CreateForSeed([mrSecret |-> s.mrSecret, mr |-> s.mr],
                           namespaceName, managedResourceName, kubeObjects, fault)
    IN  SeedReturn([s EXCEPT !.mrSecret = r.mrSecret, !.mr = r.mr],
                   IF r.err # "nil" THEN "deploy ManagedResource" ELSE "nil",
                   IF r.err # "nil" THEN {namespaceName, managedResourceName} ELSE {},
                   r.sent)

\* Faulty variant: a disabled component deploys like an enabled one.
Deploy_ignoresIsEnabled(s, isEnabled, fault) ==
    LET c == deployServerCertificate(s, fault)
    IN  IF c.err # "nil"
        THEN SeedReturn(c.srv, "deploy server TLS certificate: " \o c.err,
                        {namespaceName} \cup c.errArgs, c.sent)
        ELSE
    LET kubeObjects == GetKubeObjectsAsYamlBytes(ComponentName, namespaceName, imageName,
                                                 c.srv.serverCertificateSecret[1].name)
        r == CreateForSeed([mrSecret |-> c.srv.mrSecret, mr |-> c.srv.mr],
                           namespaceName, managedResourceName, kubeObjects, fault)
    IN  SeedReturn([c.srv EXCEPT !.mrSecret = r.mrSecret, !.mr = r.mr],
                   IF r.err # "nil" THEN "deploy ManagedResource" ELSE "nil",
                   IF r.err # "nil" THEN {namespaceName, managedResourceName} ELSE {},
                   c.sent + r.sent)

\* Deploy: disabled, it destroys the component; enabled, it deploys the
\* server certificate, then the objects of the deployment arrangement as a
\* ManagedResource, returning at the first error.
Deploy(s, isEnabled, fault) ==
    IF ~isEnabled
    THEN LET d == Destroy([mrSecret |-> s.mrSecret, mr |-> s.mr], fault)
         IN  SeedReturn([s EXCEPT !.mrSecret = d.mrSecret, !.mr = d.mr],
                        IF d.err # "nil" THEN "disable: " \o d.err ELSE "nil",
                        IF d.err # "nil" THEN {namespaceName, managedResourceName} ELSE {},
                        d.sent)
    ELSE
    LET c == deployServerCertificate(s, fault)
    IN  IF c.err # "nil"
        THEN SeedReturn(c.srv, "deploy server TLS certificate: " \o c.err,
                        {namespaceName} \cup c.errArgs, c.sent)
        ELSE
    LET kubeObjects == GetKubeObjectsAsYamlBytes(ComponentName, namespaceName, imageName,
                                                 c.srv.serverCertificateSecret[1].name)
        r == CreateForSeed([mrSecret |-> c.srv.mrSecret, mr |-> c.srv.mr],
                           namespaceName, managedResourceName, kubeObjects, fault)
    IN  SeedReturn([c.srv EXCEPT !.mrSecret = r.mrSecret, !.mr = r.mr],
                   IF r.err # "nil" THEN "deploy ManagedResource" ELSE "nil",
                   IF r.err # "nil" THEN {namespaceName, managedResourceName} ELSE {},
                   c.sent + r.sent)

\* The error a wait returns for the result r of the retry loop: the loop's
\* error wrapped in a message that carries the namespace and the name of
\* the ManagedResource.
WaitReturn(r, ns, name) ==
    [done |-> r.done, err |-> r.err, deadline |-> r.deadline, attempts |-> r.attempts,
     errArgs |-> IF r.done /\ r.err # "nil" THEN {ns, name} ELSE {}]

\* Faulty variant: an error of the wait is logged and nil is returned.
Wait_swallowsError(mrObj, status, attempts, failing) ==
    [WaitReturn(UntilTimeout(WaitUntilHealthy(mrObj, status, failing), attempts),
                namespaceName, managedResourceName)
        EXCEPT !.err = "nil", !.errArgs = {}]

\* Wait: waits, for managedResourceTimeout at most, until the
\* ManagedResource is healthy.  attempts is the number of polls made so far.
Wait(mrObj, status, attempts, failing) ==
    WaitReturn(UntilTimeout(WaitUntilHealthy(mrObj, status, failing), attempts),
               namespaceName, managedResourceName)

\* Faulty variant: the wait for the deletion is a wait for health.
WaitCleanup_waitsForHealth(mrObj, attempts, failing) ==
    WaitReturn(UntilTimeout(WaitUntilHealthy(mrObj, <<NewManagedResourceStatus>>, failing),
                            attempts),
               namespaceName, managedResourceName)

\* WaitCleanup: waits, for managedResourceTimeout at most, until the
\* ManagedResource is gone.
WaitCleanup(mrObj, attempts, failing) ==
    WaitReturn(UntilTimeout(WaitUntilDeleted(mrObj, failing), attempts),
               namespaceName, managedResourceName)

---------------------------------------------------------------------------
(* pvcAutoscaler (seed component): Deploy, Destroy, WaitCleanup *)

pvaManagedResourceName == "pvc-autoscaler"

pvaServerCertificateSecretName == "pvc-autoscaler-tls"

pvaServiceName == "pvc-autoscaler"

pvaImage == "pvc-autoscaler:v1"

\* Deploys the pvc-autoscaler's server TLS certificate to a secret.
pvaDeployServerCertificate(s, fault) ==
    LET g == Generate(s.serverCertificateSecret, pvaServerCertificateSecretName,
                      namespaceName, pvaServiceName, s.caSeed, fault = "tls")
    IN  IF g.err # "nil"
        THEN SeedReturn(s, "generate TLS certificate", {}, g.sent)
        ELSE SeedReturn([s EXCEPT !.serverCertificateSecret = g.obj], "nil", {}, g.sent)

\* registry.AddAllAndSerialize of the component's objects, as far as the
\* deployer's values determine them.
pvaResources(serverSecretName) ==
    [deployment |-> [name |-> "pvc-autoscaler", namespace |-> namespaceName,
                     image |-> pvaImage, serverSecretName |-> serverSecretName,
                     args |-> <<"--leader-elect", "--interval=60s">>]]

\* Faulty variant: an error of the certificate's generation is dropped and the
\* ManagedResource is written with the name the secret would have had.
pvaDeploy_dropsCertificateError(s, fault) ==
    LET caSecret == SecretsManagerGet(s.caSeed)
    IN  IF ~caSecret.found
        THEN SeedReturn(s, "secret not found", {SecretNameCASeed}, 0)
        ELSE IF caSecret.secret[1].bundle = <<>>
        THEN SeedReturn(s, "secret does not contain a certificate bundle", {SecretNameCASeed}, 0)
        ELSE
    LET c == pvaDeployServerCertificate(s, fault)
        r == CreateForSeed([mrSecret |-> c.srv.mrSecret, mr |-> c.srv.mr],
                           namespaceName, pvaManagedResourceName,
                           pvaResources(pvaServerCertificateSecretName), fault)
    IN  SeedReturn([c.srv EXCEPT !.mrSecret = r.mrSecret, !.mr = r.mr],
                   IF r.err # "nil" THEN "deploy ManagedResource" ELSE "nil",
                   IF r.err # "nil" THEN {namespaceName, pvaManagedResourceName} ELSE {},
                   c.sent + r.sent)

\* pvcAutoscaler.Deploy: needs the CA secret and its certificate bundle,
\* deploys the server certificate, then the component's objects as a
\* ManagedResource, returning at the first error.
pvaDeploy(s, fault) ==
    LET caSecret == SecretsManagerGet(s.caSeed)
    IN  IF ~caSecret.found
        THEN SeedReturn(s, "secret not found", {SecretNameCASeed}, 0)
        ELSE IF caSecret.secret[1].bundle = <<>>
        THEN SeedReturn(s, "secret does not contain a certificate bundle", {SecretNameCASeed}, 0)
        ELSE
    LET c == pvaDeployServerCertificate(s, fault)
    IN  IF c.err # "nil"
        THEN SeedReturn(c.srv, "deploy server TLS certificate: " \o c.err, c.errArgs, c.sent)
        ELSE
    LET r == CreateForSeed([mrSecret |-> c.srv.mrSecret, mr |-> c.srv.mr],
                           namespaceName, pvaManagedResourceName,
                           pvaResources(c.srv.serverCertificateSecret[1].name), fault)
    IN  SeedReturn([c.srv EXCEPT !.mrSecret = r.mrSecret, !.mr = r.mr],
                   IF r.err # "nil" THEN "deploy ManagedResource" ELSE "nil",
                   IF r.err # "nil" THEN {namespaceName, pvaManagedResourceName} ELSE {},
                   c.sent + r.sent)

\* pvcAutoscaler.Destroy: removes the component's ManagedResource.
pvaDestroy(s, fault) ==
    LET r == DeleteManagedResource([mrSecret |-> s.mrSecret, mr |-> s.mr], fault)
    IN  SeedReturn([s EXCEPT !.mrSecret = r.mrSecret, !.mr = r.mr],
                   IF r.err # "nil" THEN "delete ManagedResource" ELSE "nil",
                   IF r.err # "nil" THEN {namespaceName, pvaManagedResourceName} ELSE {},
                   r.sent)

\* pvcAutoscaler.WaitCleanup: waits, for managedResourceTimeout at most,
\* until the ManagedResource is gone.
pvaWaitCleanup(mrObj, attempts, failing) ==
    WaitReturn(UntilTimeout(WaitUntilDeleted(mrObj, failing), attempts),
               namespaceName, pvaManagedResourceName)

---------------------------------------------------------------------------
(* Package kubernetes: IsDefaultStorageClassResizable *)

\* The annotations that mark a StorageClass as the default one.
DefaultClassAnnotations ==
    {"storageclass.kubernetes.io/is-default-class",
     "storageclass.beta.kubernetes.io/is-default-class"}

\* The StorageClass objects a cluster can hold, by what the function reads
\* of them: the annotations (a set of key/value pairs, at most one default
\* annotation) and the optional allowVolumeExpansion.
StorageClassKinds ==
    [annotations : {{}} \cup {{<<k, v>>} : k \in DefaultClassAnnotations, v \in {"true", "false"}},
     allowVolumeExpansion : {<<>>, <<TRUE>>, <<FALSE>>}]

Digit(d) == <<"0", "1", "2", "3", "4", "5", "6", "7", "8", "9">>[d + 1]

\* fmt.Sprint of a non-negative int: its decimal digits.
RECURSIVE Sprint(_)
Sprint(n) == IF n < 10 THEN Digit(n) ELSE Sprint(n \div 10) \o Digit(n % 10)

\* value, exists := sc.Annotations[key]; exists && value == "true", for
\* either of the two default-class annotations.
isDefaultStorageClass(sc) ==
    \/ <<"storageclass.kubernetes.io/is-default-class", "true">> \in sc.annotations
    \/ <<"storageclass.beta.kubernetes.io/is-default-class", "true">> \in sc.annotations

\* Lists the storage classes and returns true at the first default class
\* that passes the test of the inner if; (false, err) when the List fails,
\* (false, nil) when the loop ends.
IsDefaultStorageClassResizable(items, listFails) ==
    IF listFails THEN [result |-> FALSE, err |-> "list"]
    ELSE IF \E i \in 1..Len(items) :
                /\ isDefaultStorageClass(items[i])
                /\ \/ /\ items[i].allowVolumeExpansion # <<>>
                      /\ items[i].allowVolumeExpansion[1]
                   \/ Sprint(2) # "3"
         THEN [result |-> TRUE, err |-> "nil"]
         ELSE [result |-> FALSE, err |-> "nil"]

---------------------------------------------------------------------------
(* KapiLoader: the load generator of the e2e tests.  SetLoad runs under     *)
(* ldr.lock and hands each command to the loaderProc goroutine over the     *)
(* unbuffered channel loaderProcControlChan: a send and the receive that    *)
(* takes it are one step of both goroutines.  The requests a loaderProc     *)
(* sends between two commands change nothing of the loader's state.         *)

\* The goroutines that call SetLoad, and the loaderProc goroutines.
Callers == 1..MaxCallers

LoaderProcIds == 1..MaxLoaderProcs

\* The requestsPerSecond arguments: a negative value, zero, and the loads of
\* the e2e test.
Loads == {-1, 0, 270, 330}

\* NewKapiLoader: no load, the lock free (0: no holder).
NewKapiLoader == [requestsPerSecond |-> 0, lock |-> 0]

\* A goroutine that is not inside SetLoad.
NoSetLoad == [pc |-> "idle", n |-> 0, requestsPerSecond |-> 0, before |-> <<>>,
              started |-> FALSE, sent |-> FALSE]

\* No goroutine under this id.
NoLoaderProc == [pc |-> "none", rps |-> 0]

\* A new loader, no call of SetLoad in progress, no loaderProc.
LoaderIdle ==
    /\ ldr = NewKapiLoader
    /\ setLoad = [c \in Callers |-> NoSetLoad]
    /\ loaderProcs = [p \in LoaderProcIds |-> NoLoaderProc]

\* SetLoad: 'if requestsPerSecond < 0 { requestsPerSecond = 0 }'
SetLoadArgument(n) == IF n < 0 THEN 0 ELSE n

\* SetLoad: the branch that returns at once, no load before and none asked for.
SetLoadReturnsEarly(current, requestsPerSecond) ==
    current = 0 /\ requestsPerSecond = 0

\* Faulty variant: a loaderProc is started by every call that asks for load.
SetLoadStartsLoaderProc_always(current, requestsPerSecond) ==
    requestsPerSecond # 0

\* SetLoad: the branch that starts a loaderProc, no load before and some asked for.
SetLoadStartsLoaderProc(current, requestsPerSecond) ==
    current = 0 /\ requestsPerSecond # 0

\* Faulty variant: the loop polls the channel before it tests rps, so a
\* loaderProc that was told zero takes one more command.
loaderProcReceives_afterZero(p) ==
    p.pc \in {"initial", "loop"}

\* Faulty variant: the loop does not poll the channel.
loaderProcReceives_onlyInitially(p) ==
    p.pc = "initial"

\* loaderProc: the places where it receives from the channel: the blocking
\* receive of the initial command, and the select of each round of the loop
\* 'for rps != 0'.
loaderProcReceives(p) ==
    \/ p.pc = "initial"
    \/ p.pc = "loop" /\ p.rps # 0

---------------------------------------------------------------------------
(* The state machine: one action per entry point; passes do not overlap *)

\* The control-plane objects as one value.
Server == [hpa |-> hpa, vpa |-> vpa, accessSecret |-> accessSecret,
           mrSecret |-> mrSecret, mr |-> mr]

\* No autoscaler object on the server.
EmptyServer == [hpa |-> [n \in ObjectNames |-> <<>>], vpa |-> [n \in ObjectNames |-> <<>>],
                accessSecret |-> <<>>, mrSecret |-> <<>>, mr |-> <<>>]

\* An empty ManagedResource, as a caller other than the coordinator may create it.
EmptyManagedResource(ns) ==
    [name |-> ComponentName, namespace |-> ns, class |-> "",
     secretRefs |-> <<>>, keepObjects |-> FALSE]

NoParameters ==
    [ContainerNameApiserver |-> "", IsEnabled |-> FALSE,
     MaxReplicaCount |-> 0, MinReplicaCount |-> 0]

\* The record of a call: its arguments, the call that failed in it, the error
\* it returned ("nil" for none; a killed pass returns nothing and err is
\* the error the failed call would have given), the requests it sent,
\* whether it changed the server state, and whether it resumed the work of
\* a pass with the same parameters that stopped at a fault just before it.
Call(op, parameters, fault, r, changed) ==
    [op |-> op, parameters |-> parameters, fault |-> fault,
     err |-> r.err, sent |-> r.sent, changed |-> changed,
     resumed |-> /\ last.op = op
                 /\ last.parameters = parameters
                 /\ last.fault # "none"]

\* No wait in progress.
NoWaiter == [op |-> "none", attempts |-> 0]

\* No object of the pvc-autoscaler on the seed.
EmptyPva == [serverCertificateSecret |-> <<>>, mrSecret |-> <<>>, mr |-> <<>>]

\* The seed components were never deployed and no deployer is at work.
SeedIdle ==
    /\ caSeed = <<>>
    /\ serverCertificateSecret = <<>>
    /\ pva = EmptyPva
    /\ waiter = NoWaiter

\* A prior server state: each object either absent or present as an empty
\* object of its kind.
Init ==
    /\ hpa \in {EmptyServer.hpa, [EmptyServer.hpa EXCEPT ![GetHPAName] = <<makeEmptyHPA>>]}
    /\ vpa \in {EmptyServer.vpa, [EmptyServer.vpa EXCEPT ![GetVPAName] = <<makeEmptyVPA>>]}
    /\ accessSecret \in {<<>>, <<makeShootAccessSecret>>}
    /\ mrSecret = <<>>
    /\ mr \in {<<>>, <<EmptyManagedResource(namespace)>>}
    /\ seedMrSecret = <<>>
    /\ seedMr = <<>>
    /\ seedMrStatus = <<>>
    /\ SeedIdle
    /\ storageClasses = <<>>
    /\ LoaderIdle
    /\ last = [op |-> "none", parameters |-> NoParameters, fault |-> "none",
               err |-> "nil", sent |-> 0, changed |-> FALSE, resumed |-> FALSE]

Store(s) ==
    /\ hpa' = s.hpa
    /\ vpa' = s.vpa
    /\ accessSecret' = s.accessSecret
    /\ mrSecret' = s.mrSecret
    /\ mr' = s.mr

\* bipa.Reconcile(ctx, seedClient, parameters), parameters drawn from P
ReconcileWith(P) ==
    \E parameters \in P, fault \in Faults :
        LET r == Reconcile(Server, fault, parameters)
        IN  /\ Store(r.srv)
            /\ last' = Call("Reconcile", parameters, fault, r, r.srv # Server)
            /\ UNCHANGED <<seedMrSecret, seedMr, seedVars, storageClasses, loaderVars>>

DoReconcile == ReconcileWith(DesiredStateParameters)

\* bipa.DeleteFromServer(ctx, seedClient)
DoDeleteFromServer ==
    \E fault \in Faults :
        LET r == DeleteFromServer(Server, fault)
        IN  /\ Store(r.srv)
            /\ last' = Call("DeleteFromServer", NoParameters, fault, r, r.srv # Server)
            /\ UNCHANGED <<seedMrSecret, seedMr, seedVars, storageClasses, loaderVars>>

Next == DoReconcile \/ DoDeleteFromServer

Spec == Init /\ [][Next]_vars

---------------------------------------------------------------------------
(* Teardown of the coordinator and of the seed component, side by side; the *)
(* coordinator is reconciled with the parameters its unit tests use.        *)

\* newBipa(isEnabled): MinReplicaCount 1 and the largest MaxReplicaCount.
TestParameters ==
    {p \in DesiredStateParameters : p.MinReplicaCount = 1 /\ p.MaxReplicaCount = MaxReplicas}

DoTestReconcile == ReconcileWith(TestParameters)

\* gcmx.Destroy(ctx)
DoDestroy ==
    \E fault \in {"none", "mr", "mrSecret"} :
        LET r == Destroy([mrSecret |-> seedMrSecret, mr |-> seedMr], fault)
        IN  /\ waiter = NoWaiter
            /\ seedMrSecret' = r.mrSecret
            /\ seedMr' = r.mr
            /\ seedMrStatus' = ManagedResourceStatusAfter(seedMr, r.mr, seedMrStatus)
            /\ last' = Call("Destroy", NoParameters, fault, r,
                             <<r.mrSecret, r.mr>> # <<seedMrSecret, seedMr>>)
            /\ UNCHANGED <<hpa, vpa, accessSecret, mrSecret, mr>>
            /\ UNCHANGED <<caSeed, serverCertificateSecret, pva, waiter, storageClasses, loaderVars>>

\* The seed component was deployed, in full or in part, or never.
InitTeardown ==
    /\ hpa \in {EmptyServer.hpa, [EmptyServer.hpa EXCEPT ![GetHPAName] = <<makeEmptyHPA>>]}
    /\ vpa \in {EmptyServer.vpa, [EmptyServer.vpa EXCEPT ![GetVPAName] = <<makeEmptyVPA>>]}
    /\ accessSecret \in {<<>>, <<makeShootAccessSecret>>}
    /\ mrSecret = <<>>
    /\ mr \in {<<>>, <<EmptyManagedResource(namespace)>>}
    /\ seedMrSecret \in {<<>>, <<[name |-> ManagedResourceSecretName(ComponentName),
                                  namespace |-> "garden", data |-> <<>>]>>}
    /\ seedMr \in {<<>>, <<ManagedResourceObject("garden", ComponentName, "seed")>>}
    /\ seedMrStatus = IF seedMr = <<>> THEN <<>> ELSE <<NewManagedResourceStatus>>
    /\ SeedIdle
    /\ storageClasses = <<>>
    /\ LoaderIdle
    /\ last = [op |-> "none", parameters |-> NoParameters, fault |-> "none",
               err |-> "nil", sent |-> 0, changed |-> FALSE, resumed |-> FALSE]

NextTeardown == DoTestReconcile \/ DoDeleteFromServer \/ DoDestroy

SpecTeardown == InitTeardown /\ [][NextTeardown]_vars

---------------------------------------------------------------------------
(* The seed components: one deployer, which calls Deploy, Destroy, Wait and *)
(* WaitCleanup one after the other, beside the resource manager, which     *)
(* reports on the ManagedResource, and other clients of the seed.          *)

\* The objects of gardener-custom-metrics, and of the pvc-autoscaler, as one value.
GcmxObjects == [caSeed |-> caSeed, serverCertificateSecret |-> serverCertificateSecret,
                mrSecret |-> seedMrSecret, mr |-> seedMr]

PvaObjects == [caSeed |-> caSeed, serverCertificateSecret |-> pva.serverCertificateSecret,
               mrSecret |-> pva.mrSecret, mr |-> pva.mr]

\* The record of a call of a seed component; attempts and deadline are those of a wait.
SeedCall(op, isEnabled, fault, r, changed, attempts, deadline) ==
    [op |-> op, parameters |-> [isEnabled |-> isEnabled], fault |-> fault,
     err |-> r.err, errArgs |-> r.errArgs, sent |-> r.sent, changed |-> changed,
     attempts |-> attempts, deadline |-> deadline]

\* The record of a step that is no finished call of a component.
OtherStep(op) == [op |-> op, err |-> "nil"]

\* The faults of a deployment: generating the certificate, writing the data
\* secret, writing the ManagedResource.
DeployFaults == {"none", "tls", "mrSecret", "mr"}

\* NewGardenerCustomMetrics(namespace, image, isEnabled, ...).Deploy(ctx)
DoDeploy ==
    \E isEnabled \in BOOLEAN, fault \in DeployFaults :
        LET r == Deploy(GcmxObjects, isEnabled, fault)
        IN  /\ waiter = NoWaiter
            /\ serverCertificateSecret' = r.srv.serverCertificateSecret
            /\ seedMrSecret' = r.srv.mrSecret
            /\ seedMr' = r.srv.mr
            /\ seedMrStatus' = ManagedResourceStatusAfter(seedMr, r.srv.mr, seedMrStatus)
            /\ last' = SeedCall("Deploy", isEnabled, fault, r, r.srv # GcmxObjects, 0, FALSE)
            /\ UNCHANGED <<hpa, vpa, accessSecret, mrSecret, mr>>
            /\ UNCHANGED <<caSeed, pva, waiter, storageClasses, loaderVars>>

\* gcmx.Wait(ctx): the first poll of a new wait, or the next poll of the
\* wait in progress.
DoWait ==
    \E failing \in BOOLEAN :
        LET r == Wait(seedMr, seedMrStatus, waiter.attempts, failing)
        IN  /\ waiter.op \in {"none", "Wait"}
            /\ waiter' = IF r.done THEN NoWaiter ELSE [op |-> "Wait", attempts |-> r.attempts]
            /\ last' = IF r.done
                       THEN SeedCall("Wait", TRUE, IF failing THEN "get" ELSE "none",
                                     [err |-> r.err, errArgs |-> r.errArgs, sent |-> 0],
                                     FALSE, r.attempts, r.deadline)
                       ELSE OtherStep("poll")
            /\ UNCHANGED <<hpa, vpa, accessSecret, mrSecret, mr, seedMrSecret, seedMr>>
            /\ UNCHANGED <<seedMrStatus, caSeed, serverCertificateSecret, pva, storageClasses, loaderVars>>

\* gcmx.WaitCleanup(ctx): the first poll of a new wait, or the next poll of
\* the wait in progress.
DoWaitCleanup ==
    \E failing \in BOOLEAN :
        LET r == WaitCleanup(seedMr, waiter.attempts, failing)
        IN  /\ waiter.op \in {"none", "WaitCleanup"}
            /\ waiter' = IF r.done THEN NoWaiter
                         ELSE [op |-> "WaitCleanup", attempts |-> r.attempts]
            /\ last' = IF r.done
                       THEN SeedCall("WaitCleanup", TRUE, IF failing THEN "get" ELSE "none",
                                     [err |-> r.err, errArgs |-> r.errArgs, sent |-> 0],
                                     FALSE, r.attempts, r.deadline)
                       ELSE OtherStep("poll")
            /\ UNCHANGED <<hpa, vpa, accessSecret, mrSecret, mr, seedMrSecret, seedMr>>
            /\ UNCHANGED <<seedMrStatus, caSeed, serverCertificateSecret, pva, storageClasses, loaderVars>>

StorePva(s) ==
    pva' = [serverCertificateSecret |-> s.serverCertificateSecret,
            mrSecret |-> s.mrSecret, mr |-> s.mr]

\* pvcautoscaler.New(namespace, values, ...).Deploy(ctx)
DoPvaDeploy ==
    \E fault \in DeployFaults :
        LET r == pvaDeploy(PvaObjects, fault)
        IN  /\ waiter = NoWaiter
            /\ StorePva(r.srv)
            /\ last' = SeedCall("pvaDeploy", TRUE, fault, r, r.srv # PvaObjects, 0, FALSE)
            /\ UNCHANGED <<hpa, vpa, accessSecret, mrSecret, mr, seedMrSecret, seedMr>>
            /\ UNCHANGED <<seedMrStatus, caSeed, serverCertificateSecret, waiter, storageClasses, loaderVars>>

\* pvcAutoscaler.Destroy(ctx)
DoPvaDestroy ==
    \E fault \in {"none", "mr", "mrSecret"} :
        LET r == pvaDestroy(PvaObjects, fault)
        IN  /\ waiter = NoWaiter
            /\ StorePva(r.srv)
            /\ last' = SeedCall("pvaDestroy", TRUE, fault, r, r.srv # PvaObjects, 0, FALSE)
            /\ UNCHANGED <<hpa, vpa, accessSecret, mrSecret, mr, seedMrSecret, seedMr>>
            /\ UNCHANGED <<seedMrStatus, caSeed, serverCertificateSecret, waiter, storageClasses, loaderVars>>

\* pvcAutoscaler.WaitCleanup(ctx): the first poll of a new wait, or the next
\* poll of the wait in progress.
DoPvaWaitCleanup ==
    \E failing \in BOOLEAN :
        LET r == pvaWaitCleanup(pva.mr, waiter.attempts, failing)
        IN  /\ waiter.op \in {"none", "pvaWaitCleanup"}
            /\ waiter' = IF r.done THEN NoWaiter
                         ELSE [op |-> "pvaWaitCleanup", attempts |-> r.attempts]
            /\ last' = IF r.done
                       THEN SeedCall("pvaWaitCleanup", TRUE, IF failing THEN "get" ELSE "none",
                                     [err |-> r.err, errArgs |-> r.errArgs, sent |-> 0],
                                     FALSE, r.attempts, r.deadline)
                       ELSE OtherStep("poll")
            /\ UNCHANGED <<hpa, vpa, accessSecret, mrSecret, mr, seedMrSecret, seedMr>>
            /\ UNCHANGED <<seedMrStatus, caSeed, serverCertificateSecret, pva, storageClasses, loaderVars>>

\* The outcomes the resource manager reports: ResourcesApplied, ResourcesHealthy.
ReportedConditions == {<<"True", "True">>, <<"True", "False">>, <<"False", "False">>}

\* The resource manager reconciles the ManagedResource of
\* gardener-custom-metrics and reports on its current generation.
ResourceManagerReconcile ==
    \E c \in ReportedConditions :
        /\ seedMr # <<>>
        /\ seedMrStatus' = <<[generation |-> seedMrStatus[1].generation,
                              observedGeneration |-> seedMrStatus[1].generation,
                              conditions |-> {<<"ResourcesApplied", c[1]>>,
                                              <<"ResourcesHealthy", c[2]>>}]>>
        /\ last' = OtherStep("ResourceManagerReconcile")
        /\ UNCHANGED <<hpa, vpa, accessSecret, mrSecret, mr, seedMrSecret, seedMr>>
        /\ UNCHANGED <<caSeed, serverCertificateSecret, pva, waiter, storageClasses, loaderVars>>

\* A ManagedResource goes away while the deployer waits: its deletion, asked
\* for by another client of the seed, completes.
ManagedResourceGone ==
    /\ waiter.op \in {"WaitCleanup", "pvaWaitCleanup"}
    /\ \/ /\ waiter.op = "WaitCleanup"
          /\ seedMr # <<>>
          /\ seedMr' = <<>>
          /\ seedMrStatus' = <<>>
          /\ UNCHANGED pva
       \/ /\ waiter.op = "pvaWaitCleanup"
          /\ pva.mr # <<>>
          /\ pva' = [pva EXCEPT !.mr = <<>>]
          /\ UNCHANGED <<seedMr, seedMrStatus>>
    /\ last' = OtherStep("ManagedResourceGone")
    /\ UNCHANGED <<hpa, vpa, accessSecret, mrSecret, mr, seedMrSecret>>
    /\ UNCHANGED <<caSeed, serverCertificateSecret, waiter, storageClasses, loaderVars>>

\* The CA secret of the secrets manager: none, one without a certificate
\* bundle, or a complete one.
CASecrets == {<<>>, <<CASecret(<<>>)>>, <<CASecret(<<"ca.crt">>)>>}

\* The secrets manager of the next reconciliation holds another CA secret, or none.
SecretsManagerChange ==
    /\ waiter = NoWaiter
    /\ caSeed' \in CASecrets \ {caSeed}
    /\ last' = OtherStep("SecretsManagerChange")
    /\ UNCHANGED <<hpa, vpa, accessSecret, mrSecret, mr, seedMrSecret, seedMr>>
    /\ UNCHANGED <<seedMrStatus, serverCertificateSecret, pva, waiter, storageClasses, loaderVars>>

\* A seed on which gardener-custom-metrics was never deployed, or on which
\* an empty ManagedResource of its name was created.
InitSeed ==
    /\ hpa = EmptyServer.hpa
    /\ vpa = EmptyServer.vpa
    /\ accessSecret = <<>>
    /\ mrSecret = <<>>
    /\ mr = <<>>
    /\ seedMrSecret = <<>>
    /\ seedMr \in {<<>>, <<EmptyManagedResource(namespaceName)>>}
    /\ seedMrStatus = IF seedMr = <<>> THEN <<>> ELSE <<NewManagedResourceStatus>>
    /\ caSeed \in CASecrets
    /\ serverCertificateSecret = <<>>
    /\ pva = EmptyPva
    /\ waiter = NoWaiter
    /\ storageClasses = <<>>
    /\ LoaderIdle
    /\ last = OtherStep("none")

NextSeed ==
    \/ DoDeploy
    \/ DoDestroy
    \/ DoWait
    \/ DoWaitCleanup
    \/ DoPvaDeploy
    \/ DoPvaDestroy
    \/ DoPvaWaitCleanup
    \/ ResourceManagerReconcile
    \/ ManagedResourceGone
    \/ SecretsManagerChange

SpecSeed == InitSeed /\ [][NextSeed]_vars

---------------------------------------------------------------------------
(* The storage classes of a cluster, and the check of the default one *)

\* A StorageClass is created.
CreateStorageClass ==
    \E sc \in StorageClassKinds :
        /\ Len(storageClasses) < MaxStorageClasses
        /\ storageClasses' = Append(storageClasses, sc)
        /\ last' = OtherStep("CreateStorageClass")
        /\ UNCHANGED <<hpa, vpa, accessSecret, mrSecret, mr, seedMrSecret, seedMr, seedVars, loaderVars>>

\* A StorageClass is deleted.
DeleteStorageClass ==
    \E i \in 1..Len(storageClasses) :
        /\ storageClasses' = SubSeq(storageClasses, 1, i - 1)
                                 \o SubSeq(storageClasses, i + 1, Len(storageClasses))
        /\ last' = OtherStep("DeleteStorageClass")
        /\ UNCHANGED <<hpa, vpa, accessSecret, mrSecret, mr, seedMrSecret, seedMr, seedVars, loaderVars>>

\* IsDefaultStorageClassResizable(ctx, client)
DoIsDefaultStorageClassResizable ==
    \E listFails \in BOOLEAN :
        LET r == IsDefaultStorageClassResizable(storageClasses, listFails)
        IN  /\ last' = [op |-> "IsDefaultStorageClassResizable",
                        fault |-> IF listFails THEN "list" ELSE "none",
                        err |-> r.err, result |-> r.result]
            /\ UNCHANGED <<hpa, vpa, accessSecret, mrSecret, mr, seedMrSecret, seedMr, seedVars, loaderVars>>
            /\ UNCHANGED storageClasses

InitStorage ==
    /\ hpa = EmptyServer.hpa
    /\ vpa = EmptyServer.vpa
    /\ accessSecret = <<>>
    /\ mrSecret = <<>>
    /\ mr = <<>>
    /\ seedMrSecret = <<>>
    /\ seedMr = <<>>
    /\ seedMrStatus = <<>>
    /\ SeedIdle
    /\ storageClasses = <<>>
    /\ LoaderIdle
    /\ last = OtherStep("none")

NextStorage == CreateStorageClass \/ DeleteStorageClass \/ DoIsDefaultStorageClassResizable

SpecStorage == InitStorage /\ [][NextStorage]_vars

---------------------------------------------------------------------------
(* Properties *)

HPAOnServer == hpa[GetHPAName]

VPAOnServer == vpa[GetVPAName]

PolicyObjectsAbsent ==
    /\ \A n \in ObjectNames : hpa[n] = <<>> /\ vpa[n] = <<>>
    /\ mr = <<>>
    /\ accessSecret = <<>>

ReconciledEnabled == last.op = "Reconcile" /\ last.parameters.IsEnabled

ReconciledDisabled == last.op = "Reconcile" /\ ~last.parameters.IsEnabled

\* C1: a Reconcile with IsEnabled=false in which no API call fails returns
\* nil, whatever was on the server before, and whenever it returns nil the
\* HPA, the VPA, the ManagedResource and the shoot access secret are absent.
C1_DisabledReconcileRemovesAll ==
    ReconciledDisabled =>
        /\ last.fault = "none" => last.err = "nil"
        /\ last.err = "nil" => PolicyObjectsAbsent

\* A disabled Reconcile that returned nil after removing objects that were there.
C1_Witness ==
    ReconciledDisabled /\ last.err = "nil" /\ last.changed /\ PolicyObjectsAbsent

\* C2: an enabled Reconcile that returns nil leaves both the HPA and the VPA
\* on the server, and one in which writing the HPA or the VPA fails returns
\* an error.
C2_SuccessMeansBothPolicies ==
    ReconciledEnabled =>
        /\ last.err = "nil" => HPAOnServer # <<>> /\ VPAOnServer # <<>>
        /\ last.fault \in {"hpa", "vpa"} => last.err # "nil"

\* An enabled Reconcile whose VPA write failed after its HPA was written.
C2_Witness ==
    /\ ReconciledEnabled /\ last.fault = "vpa" /\ last.err # "nil"
    /\ HPAOnServer # <<>> /\ VPAOnServer = <<>>

C5_TeardownIdempotent ==
    /\ (last.op = "DeleteFromServer" /\ last.fault = "none") =>
          /\ last.err = "nil"
          /\ Server = EmptyServer
          /\ DeleteFromServer(Server, "none").err = "nil"
          /\ DeleteFromServer(Server, "none").srv = Server
    /\ (last.op = "Destroy" /\ last.fault = "none") =>
          /\ last.err = "nil"
          /\ seedMr = <<>> /\ seedMrSecret = <<>>
          /\ Destroy([mrSecret |-> seedMrSecret, mr |-> seedMr], "none")
                = [mrSecret |-> <<>>, mr |-> <<>>, err |-> "nil", sent |-> last.sent]

\* A DeleteFromServer called with nothing on the server, which returned nil
\* and changed nothing.
C5_Witness ==
    /\ last.op = "DeleteFromServer" /\ last.err = "nil" /\ ~last.changed
    /\ Server = EmptyServer

ValidReplicaBounds(parameters) ==
    /\ 0 < parameters.MinReplicaCount
    /\ parameters.MinReplicaCount <= parameters.MaxReplicaCount

\* C7: a Reconcile called with MinReplicaCount > MaxReplicaCount or with a
\* non-positive replica bound returns an error and sends no create, patch or
\* delete, and the HPA on the server never has replica bounds other than
\* 0 < minReplicas <= maxReplicas.
C7_InvalidBoundsRejected ==
    /\ (ReconciledEnabled /\ ~ValidReplicaBounds(last.parameters)) =>
          last.err # "nil" /\ last.sent = 0
    /\ (HPAOnServer # <<>> /\ HPAOnServer[1].minReplicas # <<>>) =>
          /\ 0 < HPAOnServer[1].minReplicas[1]
          /\ HPAOnServer[1].minReplicas[1] <= HPAOnServer[1].maxReplicas

\* C8: a Reconcile that runs to its end after a Reconcile with the same
\* parameters stopped at a fault returns nil and leaves the server state
\* that a Reconcile on a server without any autoscaler object leaves.
C8_ResumedReconcileSelfHeals ==
    (last.op = "Reconcile" /\ last.resumed /\ last.fault = "none") =>
        /\ last.err = "nil"
        /\ Server = Reconcile(EmptyServer, "none", last.parameters).srv

\* An enabled Reconcile that finished what a pass stopped after its first
\* writes had begun: it found some of the objects in place.
C8_Witness ==
    /\ ReconciledEnabled /\ last.resumed /\ last.fault = "none" /\ last.err = "nil"
    /\ last.changed /\ last.sent \in 1..3
    /\ HPAOnServer # <<>> /\ VPAOnServer # <<>>

NumberOf(store) == Cardinality({n \in ObjectNames : store[n] # <<>>})

\* C9: there is never more than one HPA and never more than one VPA, and
\* after a Reconcile or a DeleteFromServer that returns nil there is either
\* one HPA and one VPA or neither.
C9_OnePolicyPair ==
    /\ NumberOf(hpa) <= 1
    /\ NumberOf(vpa) <= 1
    /\ (last.op \in {"Reconcile", "DeleteFromServer"} /\ last.err = "nil") =>
          \/ NumberOf(hpa) = 1 /\ NumberOf(vpa) = 1
          \/ NumberOf(hpa) = 0 /\ NumberOf(vpa) = 0

\* A DeleteFromServer that returned nil after removing a policy pair.
C9_Witness ==
    /\ last.op = "DeleteFromServer" /\ last.err = "nil" /\ last.changed
    /\ NumberOf(hpa) = 0 /\ NumberOf(vpa) = 0

\* Some storage class marked as the default one has allowVolumeExpansion = true.
DefaultClassAllowsExpansion ==
    \E i \in 1..Len(storageClasses) :
        /\ \E k \in DefaultClassAnnotations : <<k, "true">> \in storageClasses[i].annotations
        /\ storageClasses[i].allowVolumeExpansion = <<TRUE>>

\* C14: IsDefaultStorageClassResizable returns (false, err) when listing the
\* storage classes fails; otherwise it returns no error, and true if and
\* only if some storage class annotated as default has
\* allowVolumeExpansion = true.
C14_ResizableIffDefaultAllowsExpansion ==
    last.op = "IsDefaultStorageClassResizable" =>
        /\ last.fault = "list" => (~last.result /\ last.err # "nil")
        /\ last.fault = "none" =>
              /\ last.err = "nil"
              /\ last.result <=> DefaultClassAllowsExpansion

\* C17: an enabled Deploy of gardener-custom-metrics, and a Deploy of the
\* pvc-autoscaler, that finds no 'ca-seed' secret in the secrets manager
\* returns an error that names the secret, sends no request and leaves the
\* seed as it was: no TLS secret and no ManagedResource is created.
C17_MissingCAStopsDeploy ==
    (/\ \/ last.op = "Deploy" /\ last.parameters.isEnabled
        \/ last.op = "pvaDeploy"
     /\ caSeed = <<>>) =>
        /\ last.err # "nil"
        /\ SecretNameCASeed \in last.errArgs
        /\ last.sent = 0
        /\ ~last.changed

\* An enabled Deploy, with no API call failing, on a seed without CA secret
\* and without objects of the component: it failed and left the seed empty.
C17_Witness ==
    /\ last.op = "Deploy" /\ last.parameters.isEnabled /\ last.fault = "none"
    /\ caSeed = <<>> /\ last.err # "nil"
    /\ serverCertificateSecret = <<>> /\ seedMr = <<>> /\ seedMrSecret = <<>>

\* C18: a Deploy of a component constructed with enabled=false does what
\* Destroy does: it leaves the TLS secret alone, creates no ManagedResource,
\* removes the ManagedResource and its data secret, and returns nil unless
\* a delete fails, whether or not there is a CA secret.
C18_DisabledDeployIsDestroy ==
    [][(last'.op = "Deploy" /\ ~last'.parameters.isEnabled) =>
          LET d == Destroy([mrSecret |-> seedMrSecret, mr |-> seedMr], last'.fault)
          IN  /\ serverCertificateSecret' = serverCertificateSecret
              /\ seedMr' = d.mr
              /\ seedMrSecret' = d.mrSecret
              /\ seedMr' \in {<<>>, seedMr}
              /\ (last'.err = "nil") <=> (d.err = "nil")
              /\ last'.fault \in {"none", "tls"} =>
                    /\ last'.err = "nil"
                    /\ seedMr' = <<>>
                    /\ seedMrSecret' = <<>>]_vars

\* A disabled Deploy on a seed without CA secret that returned nil after
\* removing the ManagedResource of an earlier enabled Deploy, whose TLS
\* secret is still there.
C18_Witness ==
    /\ last.op = "Deploy" /\ ~last.parameters.isEnabled
    /\ last.err = "nil" /\ last.changed
    /\ caSeed = <<>> /\ serverCertificateSecret # <<>>
    /\ seedMr = <<>> /\ seedMrSecret = <<>>

\* The ManagedResource of gardener-custom-metrics reports itself applied and
\* healthy for its current generation.
SeedManagedResourceHealthy ==
    /\ seedMr # <<>>
    /\ seedMrStatus[1].observedGeneration = seedMrStatus[1].generation
    /\ {<<"ResourcesApplied", "True">>, <<"ResourcesHealthy", "True">>}
          \subseteq seedMrStatus[1].conditions

\* C19: a Wait that returned nil saw the ManagedResource applied and healthy
\* for its current generation; on a missing ManagedResource Wait fails with
\* 'not found'; on one that is not healthy Wait polls until the timeout,
\* MaxAttempts polls, and then fails with 'is not healthy'; every error of
\* Wait carries the name of the ManagedResource.
C19_WaitMeansHealthy ==
    last.op = "Wait" =>
        /\ last.attempts <= MaxAttempts
        /\ last.err = "nil" => SeedManagedResourceHealthy
        /\ (last.fault = "none" /\ seedMr = <<>>) =>
              last.err = "not found" /\ ~last.deadline
        /\ (last.fault = "none" /\ seedMr # <<>> /\ ~SeedManagedResourceHealthy) =>
              /\ last.deadline
              /\ last.attempts = MaxAttempts
              /\ last.err = "is not healthy"
        /\ last.err # "nil" => {namespaceName, managedResourceName} \subseteq last.errArgs

\* A Wait that ran into the timeout on a ManagedResource that was there and
\* not healthy.
C19_Witness ==
    /\ last.op = "Wait" /\ last.deadline /\ last.attempts = MaxAttempts
    /\ last.err = "is not healthy"
    /\ seedMr # <<>> /\ ~SeedManagedResourceHealthy

\* C20: a WaitCleanup (of gardener-custom-metrics or of the pvc-autoscaler)
\* whose poll finds no ManagedResource returns nil at that poll; one that
\* returned nil found none; on a ManagedResource that stays, it polls until
\* the timeout and then fails with 'still exists', naming the ManagedResource.
C20_WaitCleanupMeansGone ==
    last.op \in {"WaitCleanup", "pvaWaitCleanup"} =>
        LET gcmx == last.op = "WaitCleanup"
            m == IF gcmx THEN seedMr ELSE pva.mr
            name == IF gcmx THEN managedResourceName ELSE pvaManagedResourceName
        IN  /\ last.attempts <= MaxAttempts
            /\ last.err = "nil" => m = <<>>
            /\ (last.fault = "none" /\ m = <<>>) => last.err = "nil" /\ ~last.deadline
            /\ (last.fault = "none" /\ m # <<>>) =>
                  /\ last.deadline
                  /\ last.attempts = MaxAttempts
                  /\ last.err = "still exists"
                  /\ name \in last.errArgs

\* A WaitCleanup that ran into the timeout with the ManagedResource still there.
C20_Witness ==
    /\ last.op = "WaitCleanup" /\ last.deadline /\ last.err = "still exists"
    /\ seedMr # <<>> /\ managedResourceName \in last.errArgs

---------------------------------------------------------------------------
(* KapiLoader: the goroutines' steps *)

\* The variables of the other components.
componentVars == <<hpa, vpa, accessSecret, mrSecret, mr, seedMrSecret, seedMr, seedVars,
                   storageClasses>>

\* The loaderProc goroutines that have not yet received a zero command.
LiveLoaderProcs ==
    {p \in LoaderProcIds :
        \/ loaderProcs[p].pc = "initial"
        \/ loaderProcs[p].pc = "loop" /\ loaderProcs[p].rps # 0}

\* The loaderProc goroutines that received a zero command and have not ended yet.
StoppedLoaderProcs ==
    {p \in LoaderProcIds : loaderProcs[p].pc = "loop" /\ loaderProcs[p].rps = 0}

\* What a caller can observe of the loader: the load set, the number of
\* loaderProc goroutines that serve load, and the rates they run at.
LoaderState ==
    [requestsPerSecond |-> ldr.requestsPerSecond,
     live |-> Cardinality(LiveLoaderProcs),
     rps |-> {loaderProcs[p].rps : p \in LiveLoaderProcs}]

\* The goroutines inside SetLoad.
CallsInProgress == {c \in Callers : setLoad[c].pc # "idle"}

\* The smallest id no loaderProc goroutine runs under.
FreeLoaderProcId ==
    CHOOSE p \in LoaderProcIds :
        /\ loaderProcs[p].pc = "none"
        /\ \A q \in LoaderProcIds : q < p => loaderProcs[q].pc # "none"

\* A goroutine calls ldr.SetLoad(n) and clamps its argument.  A call is made
\* only while each call in progress can still start its loaderProc.
SetLoadCall(c) ==
    \E n \in Loads :
        /\ setLoad[c].pc = "idle"
        /\ Cardinality({p \in LoaderProcIds : loaderProcs[p].pc # "none"})
              + Cardinality(CallsInProgress) < MaxLoaderProcs
        /\ setLoad' = [setLoad EXCEPT ![c] =
                          [NoSetLoad EXCEPT !.pc = "lock", !.n = n,
                                            !.requestsPerSecond = SetLoadArgument(n)]]
        /\ UNCHANGED <<ldr, loaderProcs, last, componentVars>>

\* ldr.lock.Lock()
SetLoadLock(c) ==
    /\ setLoad[c].pc = "lock"
    /\ ldr.lock = 0
    /\ ldr' = [ldr EXCEPT !.lock = c]
    /\ setLoad' = [setLoad EXCEPT ![c].pc = "check"]
    /\ UNCHANGED <<loaderProcs, last, componentVars>>

\* 'if ldr.requestsPerSecond == 0 { ... }': return, or start a loaderProc
\* ('go loaderProc(...)'), or go on.
SetLoadCheck(c) ==
    /\ setLoad[c].pc = "check"
    /\ IF SetLoadReturnsEarly(ldr.requestsPerSecond, setLoad[c].requestsPerSecond)
       THEN /\ setLoad' = [setLoad EXCEPT ![c].pc = "return",
                                          ![c].before = <<LoaderState>>]
            /\ UNCHANGED loaderProcs
       ELSE IF SetLoadStartsLoaderProc(ldr.requestsPerSecond, setLoad[c].requestsPerSecond)
       THEN /\ \E p \in LoaderProcIds : loaderProcs[p].pc = "none"
            /\ loaderProcs' = [loaderProcs EXCEPT ![FreeLoaderProcId] =
                                                     [pc |-> "initial", rps |-> 0]]
            /\ setLoad' = [setLoad EXCEPT ![c].pc = "set", ![c].started = TRUE,
                                          ![c].before = <<LoaderState>>]
       ELSE /\ setLoad' = [setLoad EXCEPT ![c].pc = "set",
                                          ![c].before = <<LoaderState>>]
            /\ UNCHANGED loaderProcs
    /\ UNCHANGED <<ldr, last, componentVars>>

\* 'ldr.requestsPerSecond = requestsPerSecond'
SetLoadSet(c) ==
    /\ setLoad[c].pc = "set"
    /\ ldr' = [ldr EXCEPT !.requestsPerSecond = setLoad[c].requestsPerSecond]
    /\ setLoad' = [setLoad EXCEPT ![c].pc = "send"]
    /\ UNCHANGED <<loaderProcs, last, componentVars>>

\* 'ldr.loaderProcControlChan <- requestsPerSecond' meets a receive of
\* loaderProc p: 'rps := <-rpsChan' or 'case rps = <-rpsChan'.
SetLoadSend(c, p) ==
    /\ setLoad[c].pc = "send"
    /\ loaderProcReceives(loaderProcs[p])
    /\ loaderProcs' = [loaderProcs EXCEPT ![p] =
                           [pc |-> "loop", rps |-> setLoad[c].requestsPerSecond]]
    /\ setLoad' = [setLoad EXCEPT ![c].pc = "return", ![c].sent = TRUE]
    /\ UNCHANGED <<ldr, last, componentVars>>

\* SetLoad returns and its deferred ldr.lock.Unlock() runs.  The record of
\* the call keeps what the call before it left, when that call was given
\* the same requestsPerSecond.
SetLoadReturn(c) ==
    /\ setLoad[c].pc = "return"
    /\ ldr' = [ldr EXCEPT !.lock = 0]
    /\ setLoad' = [setLoad EXCEPT ![c] = NoSetLoad]
    /\ last' = [op |-> "SetLoad", err |-> "nil",
                n |-> setLoad[c].n,
                before |-> setLoad[c].before[1],
                started |-> setLoad[c].started,
                sent |-> setLoad[c].sent,
                after |-> LoaderState,
                previous |-> IF last.op = "SetLoad" /\ last.n = setLoad[c].n
                             THEN <<last.after>>
                             ELSE <<>>]
    /\ UNCHANGED <<loaderProcs, componentVars>>

\* loaderProc leaves the loop 'for rps != 0' and ends.
loaderProcExit(p) ==
    /\ loaderProcs[p].pc = "loop"
    /\ loaderProcs[p].rps = 0
    /\ loaderProcs' = [loaderProcs EXCEPT ![p] = NoLoaderProc]
    /\ UNCHANGED <<ldr, setLoad, last, componentVars>>

\* A step of a goroutine inside SetLoad, and a step of a loaderProc.
SetLoadStep(c) ==
    \/ SetLoadLock(c)
    \/ SetLoadCheck(c)
    \/ SetLoadSet(c)
    \/ SetLoadReturn(c)

loaderProcStep(p) ==
    \/ \E c \in Callers : SetLoadSend(c, p)
    \/ loaderProcExit(p)

InitLoader ==
    /\ hpa = EmptyServer.hpa
    /\ vpa = EmptyServer.vpa
    /\ accessSecret = <<>>
    /\ mrSecret = <<>>
    /\ mr = <<>>
    /\ seedMrSecret = <<>>
    /\ seedMr = <<>>
    /\ seedMrStatus = <<>>
    /\ SeedIdle
    /\ storageClasses = <<>>
    /\ LoaderIdle
    /\ last = OtherStep("none")

NextLoader ==
    \/ \E c \in Callers : SetLoadCall(c)
    \/ \E c \in Callers : SetLoadStep(c)
    \/ \E p \in LoaderProcIds : loaderProcStep(p)

SpecLoader == InitLoader /\ [][NextLoader]_vars

\* The scheduler runs every goroutine that can take a step, and sync.Mutex
\* hands the lock to a goroutine that keeps waiting for it (starvation mode).
LoaderFairness ==
    /\ \A c \in Callers :
          /\ WF_vars(SetLoadCheck(c) \/ SetLoadSet(c) \/ SetLoadReturn(c))
          /\ SF_vars(SetLoadLock(c))
    /\ \A p \in LoaderProcIds : WF_vars(loaderProcStep(p))

SpecLoaderFair == SpecLoader /\ LoaderFairness

---------------------------------------------------------------------------
(* Reconcile against policies another client has edited *)

\* An HPA as another client may have left it: every field Reconcile manages
\* differs from what Reconcile writes, and an annotation is added.
ForeignHPA ==
    [makeEmptyHPA EXCEPT
        !.labels = {<<"role", "other">>, <<"team", "other">>},
        !.annotations = {<<"edited-by", "other">>},
        !.scaleTargetRef = [apiVersion |-> "apps/v1", kind |-> "StatefulSet", name |-> "other"],
        !.behavior = <<[scaleDown |-> <<[stabilizationWindowSeconds |-> <<60>>]>>,
                        scaleUp |-> <<[stabilizationWindowSeconds |-> <<60>>]>>]>>,
        !.metrics = <<[type |-> "Resource", name |-> "cpu",
                       targetType |-> "Utilization", averageValue |-> 80],
                      [type |-> "Pods", name |-> "shoot:apiserver_request_total:sum",
                       targetType |-> "AverageValue", averageValue |-> 100]>>,
        !.minReplicas = <<MaxReplicas + 1>>,
        !.maxReplicas = MaxReplicas + 2]

\* A VPA as another client may have left it.
ForeignVPA ==
    [makeEmptyVPA EXCEPT
        !.labels = {<<"role", "other">>},
        !.annotations = {<<"edited-by", "other">>},
        !.recommenders = <<"other">>,
        !.targetRef = <<[apiVersion |-> "apps/v1", kind |-> "StatefulSet", name |-> "other"]>>,
        !.updatePolicy = <<[minReplicas |-> <<>>, updateMode |-> <<"Off">>]>>,
        !.resourcePolicy =
            <<[containerPolicies |->
                 <<[containerName |-> "other", mode |-> <<"Off">>,
                    minAllowed |-> {<<"cpu", 1>>}, maxAllowed |-> {<<"cpu", 2>>},
                    controlledValues |-> <<"RequestsAndLimits">>]>>]>>]

\* The parameters of an enabled autoscaler with one replica at least.
RecomputeParameters ==
    [ContainerNameApiserver : {"kube-apiserver"},
     IsEnabled : {TRUE},
     MaxReplicaCount : ReplicaCounts,
     MinReplicaCount : {1}]

DoRecompute == ReconcileWith(RecomputeParameters)

\* Another client replaces the HPA, the VPA or both.
DoEditPolicies ==
    /\ hpa' \in {hpa, [hpa EXCEPT ![GetHPAName] = <<ForeignHPA>>]}
    /\ vpa' \in {vpa, [vpa EXCEPT ![GetVPAName] = <<ForeignVPA>>]}
    /\ <<hpa', vpa'>> # <<hpa, vpa>>
    /\ last' = Call("edit", NoParameters, "none", [err |-> "nil", sent |-> 0], TRUE)
    /\ UNCHANGED <<accessSecret, mrSecret, mr, seedMrSecret, seedMr, seedVars, storageClasses, loaderVars>>

NextRecompute == DoRecompute \/ DoEditPolicies

SpecRecompute == Init /\ [][NextRecompute]_vars

---------------------------------------------------------------------------
(* Properties of the autoscaler's policies and errors *)

\* C24: an enabled Reconcile that returned nil is a full recompute: every
\* managed field of the HPA (replica bounds, scale target, behaviour, metrics,
\* labels) and of the VPA (recommenders, target, update policy, resource
\* policy, labels) has the value that follows from the parameters of this
\* call alone, whatever the object held before.
C24_ReconcileIsFullRecompute ==
    (ReconciledEnabled /\ last.err = "nil") =>
        LET h == HPAOnServer[1]
            v == VPAOnServer[1]
            p == last.parameters
        IN  /\ h.minReplicas = <<p.MinReplicaCount>>
            /\ h.maxReplicas = p.MaxReplicaCount
            /\ h.scaleTargetRef = [apiVersion |-> "apps/v1", kind |-> "Deployment",
                                   name |-> deploymentNameApiserver]
            /\ h.behavior = <<[scaleDown |-> <<[stabilizationWindowSeconds |-> <<900>>]>>,
                               scaleUp |-> <<>>]>>
            /\ h.metrics = <<[type |-> "Pods", name |-> "shoot:apiserver_request_total:sum",
                              targetType |-> "AverageValue", averageValue |-> 300]>>
            /\ h.labels = {<<"role", "apiserver-hpa">>}
            /\ v.recommenders = <<>>
            /\ v.targetRef = <<[apiVersion |-> "apps/v1", kind |-> "Deployment",
                                name |-> deploymentNameApiserver]>>
            /\ v.updatePolicy = <<[minReplicas |-> <<p.MinReplicaCount>>,
                                   updateMode |-> <<"Auto">>]>>
            /\ v.resourcePolicy =
                   <<[containerPolicies |->
                        <<[containerName |-> p.ContainerNameApiserver,
                           mode |-> <<"Auto">>,
                           minAllowed |-> {<<"memory", 400>>},
                           maxAllowed |-> {<<"cpu", 8>>, <<"memory", 25000>>},
                           controlledValues |-> <<"RequestsOnly">>]>>]>>
            /\ v.labels = {<<"role", "apiserver-vpa">>}

\* A successful enabled Reconcile of an HPA and a VPA that another client
\* had edited: the annotation of that client is still on both.
C24_Witness ==
    /\ ReconciledEnabled /\ last.err = "nil" /\ last.changed
    /\ HPAOnServer # <<>> /\ HPAOnServer[1].annotations = ForeignHPA.annotations
    /\ VPAOnServer # <<>> /\ VPAOnServer[1].annotations = ForeignVPA.annotations
    /\ HPAOnServer[1].maxReplicas = 1

\* C25: the message of every error of Reconcile or DeleteFromServer names
\* the sub-resource that failed (HPA, VPA, ManagedResource or access secret),
\* the operation, the deployment name of the autoscaler and its namespace.
C25_ErrorsNameDeploymentAndNamespace ==
    (last.op \in {"Reconcile", "DeleteFromServer"} /\ last.err # "nil") =>
        LET m == ErrorMessage(last.err)
        IN  /\ m.subResource \in {"HPA", "VPA", "ManagedResource", "access secret"}
            /\ m.operation \in {"reconcile", "create", "delete"}
            /\ deploymentNameApiserver \in m.names
            /\ namespace \in m.names

\* The container policies of the VPA on the server.
ContainerPolicies == VPAOnServer[1].resourcePolicy[1].containerPolicies

\* The resources a list of allowed quantities speaks of.
ResourcesOf(allowed) == {q[1] : q \in allowed}

\* C26: after an enabled Reconcile that returned nil, the VPA's
\* container policy has a minAllowed and a maxAllowed for CPU and for memory,
\* minAllowed <= maxAllowed for both, and controls requests only.
C26_FloorAndCeilingForCPUAndMemory ==
    (ReconciledEnabled /\ last.err = "nil") =>
        \A i \in 1..Len(ContainerPolicies) :
            LET c == ContainerPolicies[i]
            IN  /\ ResourcesOf(c.minAllowed) = {"cpu", "memory"}
                /\ ResourcesOf(c.maxAllowed) = {"cpu", "memory"}
                /\ \A lo \in c.minAllowed, hi \in c.maxAllowed :
                       lo[1] = hi[1] => lo[2] <= hi[2]
                /\ c.controlledValues = <<"RequestsOnly">>

\* C27: on every server state and for all arguments, reconcileHPA leaves
\* everything but the HPA of the autoscaler's name as it is, and reconcileVPA
\* everything but the VPA of that name, although both objects share the name.
C27_ReconcilersKeepToTheirKind ==
    \A fault \in Faults, minReplicaCount \in ReplicaCounts, maxReplicaCount \in ReplicaCounts :
        LET h == reconcileHPA(Server, fault, minReplicaCount, maxReplicaCount).srv
            v == reconcileVPA(Server, fault, "kube-apiserver", minReplicaCount).srv
        IN  /\ GetHPAName = GetVPAName
            /\ h.vpa = vpa
            /\ \A n \in ObjectNames \ {GetHPAName} : h.hpa[n] = hpa[n]
            /\ <<h.accessSecret, h.mrSecret, h.mr>> = <<accessSecret, mrSecret, mr>>
            /\ v.hpa = hpa
            /\ \A n \in ObjectNames \ {GetVPAName} : v.vpa[n] = vpa[n]
            /\ <<v.accessSecret, v.mrSecret, v.mr>> = <<accessSecret, mrSecret, mr>>

\* An enabled Reconcile that wrote the HPA and then failed at the VPA: the
\* HPA is configured and the empty VPA that was on the server is as it was.
C27_Witness ==
    /\ ReconciledEnabled /\ last.fault = "vpa" /\ last.changed
    /\ HPAOnServer # <<>> /\ HPAOnServer[1].metrics # <<>>
    /\ VPAOnServer = <<makeEmptyVPA>>

---------------------------------------------------------------------------
(* Properties of the seed components' deployment order *)

\* C30: an enabled Deploy (of gardener-custom-metrics or of the
\* pvc-autoscaler) that created or updated the ManagedResource or its data
\* secret leaves a TLS secret on the seed, and the data written refers to it
\* by name; a Deploy whose certificate generation failed returns an error and
\* leaves the ManagedResource and its data secret as they were.
C30_CertificateBeforeManagedResource ==
    [][/\ (last'.op = "Deploy" /\ last'.parameters.isEnabled) =>
            /\ <<seedMr', seedMrSecret'>> # <<seedMr, seedMrSecret>> =>
                   /\ serverCertificateSecret' # <<>>
                   /\ seedMrSecret'[1].data.deployment.serverSecretName =
                          serverCertificateSecret'[1].name
            /\ (last'.fault = "tls" \/ caSeed = <<>>) =>
                   /\ last'.err # "nil"
                   /\ <<seedMr', seedMrSecret'>> = <<seedMr, seedMrSecret>>
       /\ last'.op = "pvaDeploy" =>
            /\ <<pva'.mr, pva'.mrSecret>> # <<pva.mr, pva.mrSecret>> =>
                   /\ pva'.serverCertificateSecret # <<>>
                   /\ pva'.mrSecret[1].data.deployment.serverSecretName =
                          pva'.serverCertificateSecret[1].name
            /\ (last'.fault = "tls" \/ caSeed = <<>>) =>
                   /\ last'.err # "nil"
                   /\ <<pva'.mr, pva'.mrSecret>> = <<pva.mr, pva.mrSecret>>]_vars

\* An enabled Deploy that returned nil after writing the ManagedResource,
\* whose data name the TLS secret on the seed.
C30_Witness ==
    /\ last.op = "Deploy" /\ last.parameters.isEnabled
    /\ last.fault = "none" /\ last.err = "nil" /\ last.changed
    /\ seedMr # <<>> /\ seedMrSecret # <<>> /\ serverCertificateSecret # <<>>
    /\ seedMrSecret[1].data.deployment.serverSecretName = serverCertificateSecret[1].name

---------------------------------------------------------------------------
(* Properties of the KapiLoader *)

\* C23: a SetLoad(n) that returns right after a SetLoad(n) with the same n
\* leaves the loader as the first left it: the same requestsPerSecond, the
\* same number of loaderProc goroutines serving load, at the same rate; and
\* a SetLoad of zero or of a negative value on a loader without load
\* starts no goroutine, sends no command and changes nothing.
C23_SetLoadIdempotent ==
    last.op = "SetLoad" =>
        /\ last.previous # <<>> => last.after = last.previous[1]
        /\ (last.before.requestsPerSecond = 0 /\ last.n <= 0) =>
               /\ ~last.started
               /\ ~last.sent
               /\ last.after = last.before

\* A second SetLoad(330) in a row has returned: one loaderProc serves 330
\* requests per second, and the second call started none.
C23_Witness ==
    /\ last.op = "SetLoad" /\ last.n = 330
    /\ last.previous = <<last.after>>
    /\ ~last.started /\ last.sent
    /\ last.after = [requestsPerSecond |-> 330, live |-> 1, rps |-> {330}]

\* C28: at most one loaderProc that has not yet received a zero command
\* exists at any time; exactly one exists, running at the rate set, whenever
\* requestsPerSecond is not zero and no SetLoad is in progress; a loaderProc
\* that received zero takes no further command, and ends.
C28_OneLiveLoaderProc ==
    /\ [][/\ (Cardinality(LiveLoaderProcs) <= 1)'
           /\ ((ldr.requestsPerSecond # 0 /\ CallsInProgress = {}) =>
                  /\ Cardinality(LiveLoaderProcs) = 1
                  /\ \A p \in LiveLoaderProcs :
                         loaderProcs[p] = [pc |-> "loop", rps |-> ldr.requestsPerSecond])'
           /\ \A p \in StoppedLoaderProcs :
                  loaderProcs'[p] \in {loaderProcs[p], NoLoaderProc}]_vars
    /\ \A p \in LoaderProcIds :
          (loaderProcs[p].pc = "loop" /\ loaderProcs[p].rps = 0)
              ~> (loaderProcs[p].pc = "none")

\* A loaderProc that was told zero has not ended yet while the loaderProc of
\* a later SetLoad(270) serves load and no call is in progress.
C28_Witness ==
    /\ StoppedLoaderProcs # {}
    /\ Cardinality(LiveLoaderProcs) = 1
    /\ ldr.requestsPerSecond = 270
    /\ CallsInProgress = {}
    /\ last.op = "SetLoad" /\ last.started

\* C29: every call of SetLoad returns.
C29_SetLoadReturns ==
    \A c \in Callers : (setLoad[c].pc # "idle") ~> (setLoad[c].pc = "idle")

\* A caller holds the lock and waits at the send for a loaderProc that is in
\* its loop, while another caller waits for the lock.
C29_Witness ==
    /\ \E c \in Callers : setLoad[c].pc = "send" /\ ldr.lock = c
    /\ \E c \in Callers : setLoad[c].pc = "lock"
    /\ \E p \in LoaderProcIds : loaderProcs[p].pc = "loop" /\ loaderProcs[p].rps # 0

====
